---- MODULE Spec2Model ----
(***************************************************************************)
(* State-machine model of the batch-update exercises of the repository:    *)
(*   batch_user_updater_practice/user_updater.py   (SpecBatch)             *)
(*   contract_expiry_practice/contract_updater.py  (SpecContracts,         *)
(*                                                   SpecExpiry)           *)
(* Python dictionaries are objects on a heap: a list holds references      *)
(* (heap addresses), dict.copy() allocates a new object, and an item       *)
(* assignment writes through the reference.                                *)
(***************************************************************************)
EXTENDS Integers, Sequences, FiniteSets, TLC

VARIABLES
    \* ---- user_updater.py ----
    heap,            \* the dict objects of the user updater, by address
    users,           \* the caller's user list: a sequence of addresses
    updates,         \* the caller's update list: a sequence of addresses
    updated_users,   \* the list returned by apply_batch_updates
    arg_user,        \* arguments of a direct apply_update_to_user call
    arg_update,
    arg_id,          \* the user_id argument of a find_user_by_id call
    ret,             \* the reference returned by apply_update_to_user or
                     \* find_user_by_id; 0 is None
    pc,              \* "start", "returned" (batch), "applied" (single),
                     \* "found" (find_user_by_id)
    given            \* the caller's data as it was before the call

batchVars == <<heap, users, updates, updated_users, arg_user, arg_update,
               arg_id, ret, pc, given>>

VARIABLES
    \* ---- contract_updater.py ----
    contract_heap,      \* the dict objects of the contract updater, by address
    contracts,          \* the caller's contract list: a sequence of addresses
    updated_contracts,  \* the list update_contract_statuses builds and returns
    idx,                \* position of "for contract in contracts"
    cpc,                \* "start", "loop", "returned", "raised"
    today,              \* datetime.now().date()
    cgiven              \* the caller's contracts as they were before the call

contractVars == <<contract_heap, contracts, updated_contracts, idx, cpc, cgiven>>

VARIABLES
    \* ---- a direct call of is_expiring_soon ----
    e_date,             \* the expiry_date argument
    e_threshold,        \* the days_threshold argument
    e_result,           \* the value returned
    e_pc                \* "start", "returned", "raised"

expiryVars == <<e_date, e_threshold, e_result, e_pc>>

VARIABLES
    \* ---- user_management_api: app/database.py and app/services.py ----
    db_users,       \* InMemoryUserDB._users: the User objects in insertion order
    db_next_id,     \* InMemoryUserDB._next_id
    clock,          \* what datetime.now(timezone.utc) returns
    t_pc,           \* per thread: where its UserService call stands
    t_call,         \* per thread: the call and its arguments
    t_tmp,          \* per thread: the local variable 'users' of get_users
    t_resp,         \* per thread: what the call returned or raised
    t_pre,          \* per thread: the store when the call started, and for
                    \* get_users the store when the page was read
    created_ids,    \* the ids handed out by create_user, in order
    deleted_ids     \* the ids whose delete_user has succeeded

serviceVars == <<db_users, db_next_id, clock, t_pc, t_call, t_tmp, t_resp, t_pre,
                 created_ids, deleted_ids>>

VARIABLES
    \* ---- user_management_api: app/main.py, rate limiting ----
    rate_limit_store,   \* client IP -> list of request timestamps
    current_time,       \* what time.time() returns
    rate_resp,          \* the last request checked: its IP and outcome
    rate_status,        \* the last answer of GET /rate-limit-status
    admitted            \* per IP and instant: the requests admitted so far

rateVars == <<rate_limit_store, current_time, rate_resp, admitted, rate_status>>

VARIABLES
    \* ---- user_management_api: app/main.py, the /users endpoints ----
    users_db,       \* the list of user dicts
    next_id,        \* the global next_id
    users_lock,     \* asyncio locks: the request that holds the lock, or ""
    id_lock,
    file_lock,
    output_file,    \* what output_users.json holds
    m_pc,           \* per request: where its handler stands
    m_req,          \* per request: method and arguments
    m_resp,         \* per request: the response
    m_created,      \* the ids given out by POST /users, in order
    m_deleted,      \* the ids whose DELETE has removed the user
    m_count         \* the number of requests received

mainVars == <<users_db, next_id, users_lock, id_lock, file_lock, output_file,
              m_pc, m_req, m_resp, m_created, m_deleted, m_count>>

VARIABLES
    \* ---- contract_summarization_api: app/services.py ----
    text,               \* extract_summary: the argument
    summary_text,       \* extract_summary: the result
    x_pc,               \* extract_summary: "idle", "start", "returned"
    sum_contracts,      \* summarize_contracts: the ContractInput list
    raising_texts,      \* the texts on which the installed extractor raises
    summaries,          \* summarize_contracts: the list being built
    sum_idx,            \* summarize_contracts: records processed so far
    sum_pc              \* summarize_contracts: "idle", "loop", "returned"

summaryVars == <<text, summary_text, x_pc, sum_contracts, raising_texts, summaries,
                 sum_idx, sum_pc>>

\* what the actions of one program leave alone: the state of the others
notBatch == <<contractVars, expiryVars, today, serviceVars, rateVars, mainVars, summaryVars>>
notContracts == <<batchVars, expiryVars, serviceVars, rateVars, mainVars, summaryVars>>
notExpiry == <<batchVars, contractVars, serviceVars, rateVars, mainVars, summaryVars>>
notService == <<batchVars, contractVars, expiryVars, today, rateVars, mainVars, summaryVars>>
notMain == <<batchVars, contractVars, expiryVars, today, serviceVars, summaryVars>>
notRate == <<notMain, mainVars>>
notSummary == <<batchVars, contractVars, expiryVars, today, serviceVars, rateVars, mainVars>>

\* ------------------------------------------------------------------------
\* Bounds of the user updater model
MaxUsers == 2
MaxUpdates == 2

UserIds == {"U1", "U2"}
UserValues == {"a"}
UpdateValues == {"b", "c"}

SeqsUpTo(S, n) == UNION {[1..k -> S] : k \in 0..n}

\* A user record: user_id, name, and optionally a role.
UserDicts ==
    UNION { {[k \in D \cup {"user_id", "name"} |->
                IF k = "user_id" THEN id ELSE v] : id \in UserIds, v \in UserValues}
            : D \in SUBSET {"role"} }

\* An update: user_id plus zero or more of name (two values) and role.
UpdateDicts ==
    UNION { {[k \in D \cup {"user_id"} |->
                IF k = "user_id" THEN id
                ELSE IF k = "name" THEN v ELSE "b"] : id \in UserIds, v \in UpdateValues}
            : D \in SUBSET {"name", "role"} }

AllFields == {"user_id", "name", "role"}

\* ------------------------------------------------------------------------
\* user_updater.py

\* dict.copy(): a new object with the same items.
dict_copy(h, a) == [heap |-> Append(h, h[a]), ref |-> Len(h) + 1]

\* find_user_by_id that keeps scanning and returns the last match
RECURSIVE find_user_by_id_last(_, _, _)
find_user_by_id_last(h, us, user_id) ==
    IF us = <<>> THEN 0
    ELSE IF h[us[Len(us)]]["user_id"] = user_id THEN us[Len(us)]
    ELSE find_user_by_id_last(h, SubSeq(us, 1, Len(us) - 1), user_id)

\* find_user_by_id(users, user_id): the reference found, or 0 for None
RECURSIVE find_user_by_id(_, _, _)
find_user_by_id(h, us, user_id) ==
    IF us = <<>> THEN 0
    ELSE IF h[Head(us)]["user_id"] = user_id THEN Head(us)
    ELSE find_user_by_id(h, Tail(us), user_id)

\* dict.update(update): the user_id of the update is copied as well.
merge_items_with_key(d, upd) ==
    [k \in DOMAIN d \cup DOMAIN upd |-> IF k \in DOMAIN upd THEN upd[k] ELSE d[k]]

\* the update replaces the record instead of being merged into it.
merge_items_replace(d, upd) ==
    LET ks == DOMAIN upd \ {"user_id"}
    IN  [k \in (DOMAIN d \cap {"user_id"}) \cup ks |->
            IF k \in ks THEN upd[k] ELSE d[k]]

\* for key, value in update.items(): if key != 'user_id': d[key] = value
merge_items(d, upd) ==
    LET ks == DOMAIN upd \ {"user_id"}
    IN  [k \in DOMAIN d \cup ks |-> IF k \in ks THEN upd[k] ELSE d[k]]

\* apply_update_to_user writing into the caller's record.
apply_update_to_user_inplace(h, user, update) ==
    [heap |-> [h EXCEPT ![user] = merge_items(@, h[update])], ref |-> user]

apply_update_to_user(h, user, update) ==
    LET c == dict_copy(h, user)
    IN  [heap |-> [c.heap EXCEPT ![c.ref] = merge_items(@, h[update])],
         ref  |-> c.ref]

\* [update for update in updates if update['user_id'] == user['user_id']]
matching_updates_unfiltered(h, ups, user) == ups

matching_updates(h, ups, user) ==
    SelectSeq(ups, LAMBDA u : h[u]["user_id"] = h[user]["user_id"])

\* for update in user_updates: updated_user = apply_update_to_user(updated_user, update)
RECURSIVE apply_each(_, _, _)
apply_each_from_original(h, cur, ups) ==
    IF ups = <<>> THEN [heap |-> h, ref |-> cur]
    ELSE apply_update_to_user(h, cur, ups[Len(ups)])

apply_each(h, cur, ups) ==
    IF ups = <<>> THEN [heap |-> h, ref |-> cur]
    ELSE LET r == apply_update_to_user(h, cur, Head(ups))
         IN  apply_each(r.heap, r.ref, Tail(ups))

\* One iteration of "for user in users": the heap and the output list after it.
loop_body_updated_first(h, out, ups, user) ==
    LET user_updates == matching_updates(h, ups, user)
    IN  IF user_updates # <<>>
        THEN LET c == dict_copy(h, user)
                 r == apply_each(c.heap, c.ref, user_updates)
             IN  [heap |-> r.heap, out |-> <<r.ref>> \o out]
        ELSE [heap |-> h, out |-> Append(out, user)]

loop_body_skip_unmatched(h, out, ups, user) ==
    LET user_updates == matching_updates(h, ups, user)
    IN  IF user_updates # <<>>
        THEN LET c == dict_copy(h, user)
                 r == apply_each(c.heap, c.ref, user_updates)
             IN  [heap |-> r.heap, out |-> Append(out, r.ref)]
        ELSE [heap |-> h, out |-> out]

loop_body(h, out, ups, user) ==
    LET user_updates == matching_updates(h, ups, user)
    IN  IF user_updates # <<>>
        THEN LET c == dict_copy(h, user)
                 r == apply_each(c.heap, c.ref, user_updates)
             IN  [heap |-> r.heap, out |-> Append(out, r.ref)]
        ELSE [heap |-> h, out |-> Append(out, user)]

\* apply_batch_updates(users, updates): the heap after the call and the
\* returned list.
RECURSIVE batch_loop(_, _, _, _)
batch_loop(h, out, us, ups) ==
    IF us = <<>> THEN [heap |-> h, out |-> out]
    ELSE LET r == loop_body(h, out, ups, Head(us))
         IN  batch_loop(r.heap, r.out, Tail(us), ups)

apply_batch_updates(h, us, ups) == batch_loop(h, <<>>, us, ups)

\* ------------------------------------------------------------------------
\* The user updater as a state machine

BatchIdle ==
    /\ heap = <<>> /\ users = <<>> /\ updates = <<>> /\ updated_users = <<>>
    /\ arg_user = 0 /\ arg_update = 0 /\ arg_id = "" /\ ret = 0 /\ pc = "idle"
    /\ given = [heap |-> <<>>, users |-> <<>>, updates |-> <<>>]

InitBatchRun ==
    \E us \in SeqsUpTo(UserDicts, MaxUsers), ups \in SeqsUpTo(UpdateDicts, MaxUpdates) :
        /\ heap = us \o ups
        /\ users = [k \in 1..Len(us) |-> k]
        /\ updates = [k \in 1..Len(ups) |-> Len(us) + k]
        /\ given = [heap |-> us \o ups,
                    users |-> [k \in 1..Len(us) |-> k],
                    updates |-> [k \in 1..Len(ups) |-> Len(us) + k]]
        /\ updated_users = <<>>
        /\ arg_user = 0
        /\ arg_update = 0
        /\ arg_id = ""
        /\ ret = 0
        /\ pc = "start"

\* updated_users = apply_batch_updates(users, updates)
ApplyBatchUpdates ==
    /\ pc = "start"
    /\ LET r == apply_batch_updates(heap, users, updates)
       IN  /\ heap' = r.heap
           /\ updated_users' = r.out
    /\ pc' = "returned"
    /\ UNCHANGED <<users, updates, arg_user, arg_update, arg_id, ret, given>>
    /\ UNCHANGED notBatch

\* updated_user = apply_update_to_user(user, update), for any user and update
ApplyUpdateToUser ==
    /\ pc = "start"
    /\ \E a \in 1..Len(users), b \in 1..Len(updates) :
        LET r == apply_update_to_user(heap, users[a], updates[b])
        IN  /\ heap' = r.heap
            /\ ret' = r.ref
            /\ arg_user' = users[a]
            /\ arg_update' = updates[b]
    /\ pc' = "applied"
    /\ UNCHANGED <<users, updates, updated_users, arg_id, given>>
    /\ UNCHANGED notBatch

\* the ids find_user_by_id is asked for: those of the records and one more
SearchIds == UserIds \cup {"U99"}

\* user = find_user_by_id(users, user_id)
FindUserById ==
    /\ pc = "start"
    /\ \E id \in SearchIds :
        /\ arg_id' = id
        /\ ret' = find_user_by_id(heap, users, id)
    /\ pc' = "found"
    /\ UNCHANGED <<heap, users, updates, updated_users, arg_user, arg_update, given>>
    /\ UNCHANGED notBatch

\* ------------------------------------------------------------------------
\* contract_updater.py: dates
\* A date string "YYYY-MM-DD" is the triple <<YYYY, MM, DD>> of the numbers
\* written in it; a string that does not have this shape is <<0, 0, 0>>.

FirstYear == 2024
LastYear == 2026
DefaultThreshold == 30

IsLeap(y) == y % 4 = 0 /\ (y % 100 # 0 \/ y % 400 = 0)

DaysInMonth(y, m) ==
    IF m = 2 THEN (IF IsLeap(y) THEN 29 ELSE 28)
    ELSE IF m \in {4, 6, 9, 11} THEN 30 ELSE 31

\* datetime.strptime(date_string, "%Y-%m-%d") accepts the string
ValidDate(s) ==
    /\ s[1] \in 1..9999
    /\ s[2] \in 1..12
    /\ s[3] \in 1..DaysInMonth(s[1], s[2])

\* parse_date(date_string): the datetime, or ValueError
parse_date(s) == IF ValidDate(s) THEN [ok |-> TRUE, date |-> s]
                 ELSE [ok |-> FALSE, date |-> <<0, 0, 0>>]

\* date.toordinal(), the day number that date subtraction works on
DaysBeforeYear(y) ==
    (y - 1) * 365 + ((y - 1) \div 4) - ((y - 1) \div 100) + ((y - 1) \div 400)

DaysBeforeMonth(y, m) ==
    <<0, 31, 59, 90, 120, 151, 181, 212, 243, 273, 304, 334>>[m]
        + (IF m > 2 /\ IsLeap(y) THEN 1 ELSE 0)

toordinal(d) == DaysBeforeYear(d[1]) + DaysBeforeMonth(d[1], d[2]) + d[3]

\* is_expiring_soon without the lower bound of the comparison
is_expiring_soon_no_lower(expiry_date, days_threshold, now) ==
    LET p == parse_date(expiry_date)
    IN  IF ~p.ok THEN [ok |-> FALSE, val |-> FALSE]
        ELSE [ok |-> TRUE,
              val |-> toordinal(p.date) - toordinal(now) <= days_threshold]

\* is_expiring_soon(expiry_date, days_threshold) when today is now:
\* ok = FALSE stands for the ValueError of parse_date.
is_expiring_soon(expiry_date, days_threshold, now) ==
    LET p == parse_date(expiry_date)
    IN  IF ~p.ok THEN [ok |-> FALSE, val |-> FALSE]
        ELSE LET days == toordinal(p.date) - toordinal(now)
             IN  [ok |-> TRUE, val |-> 0 <= days /\ days <= days_threshold]

\* ------------------------------------------------------------------------
\* contract_updater.py: update_contract_statuses

\* the loop body that does not look at the status
contract_step_no_guard(h, c, now) ==
    LET soon == is_expiring_soon(h[c]["expiry_date"], DefaultThreshold, now)
    IN  IF ~soon.ok THEN [raised |-> TRUE, heap |-> h]
        ELSE IF soon.val
        THEN LET h1 == [h EXCEPT ![c]["status"] = "expiring_soon"]
                 h2 == Append(h1, h1[c])
             IN  [raised |-> FALSE,
                  heap |-> [h2 EXCEPT ![Len(h2)]["status"] = "expiring_soon"]]
        ELSE [raised |-> FALSE, heap |-> h]

\* the loop body that builds the rewritten record from the status alone
contract_step_status_only(h, c, now) ==
    IF h[c]["status"] = "active"
    THEN LET soon == is_expiring_soon(h[c]["expiry_date"], DefaultThreshold, now)
         IN  IF ~soon.ok THEN [raised |-> TRUE, heap |-> h]
             ELSE IF soon.val
             THEN [raised |-> FALSE,
                   heap |-> [h EXCEPT ![c] = [contract_id |-> @["contract_id"],
                                              company |-> "",
                                              status |-> "expiring_soon",
                                              expiry_date |-> @["expiry_date"]]]]
             ELSE [raised |-> FALSE, heap |-> h]
    ELSE [raised |-> FALSE, heap |-> h]

\* The body of "for contract in contracts" up to the append: the heap
\* after it, or the ValueError of the date.
contract_step(h, c, now) ==
    IF h[c]["status"] = "active"
    THEN LET soon == is_expiring_soon(h[c]["expiry_date"], DefaultThreshold, now)
         IN  IF ~soon.ok THEN [raised |-> TRUE, heap |-> h]
             ELSE IF soon.val
             THEN LET h1 == [h EXCEPT ![c]["status"] = "expiring_soon"]
                      h2 == Append(h1, h1[c])
                  IN  [raised |-> FALSE,
                       heap |-> [h2 EXCEPT ![Len(h2)]["status"] = "expiring_soon"]]
             ELSE [raised |-> FALSE, heap |-> h]
    ELSE [raised |-> FALSE, heap |-> h]

MaxContracts == 2

Todays == {<<2024, 2, 15>>, <<2025, 12, 20>>}

\* today - 1, today, today + 30 and today + 31 of the first day of Todays,
\* today + 30 and today + 31 of the second, and two malformed strings
ContractDates ==
    {<<2024, 2, 14>>, <<2024, 2, 15>>, <<2024, 3, 16>>, <<2024, 3, 17>>,
     <<2026, 1, 19>>, <<2026, 1, 20>>, <<2025, 13, 1>>, <<0, 0, 0>>}

Statuses == {"active", "draft", "terminated"}

ContractIdAt(k) == <<"C001", "C002", "C003", "C004">>[k]

ContractDicts(k) ==
    {[contract_id |-> ContractIdAt(k), company |-> "Acme", status |-> st,
      expiry_date |-> d] : st \in Statuses, d \in ContractDates}

ContractLists ==
    UNION { {cs \in [1..n -> UNION {ContractDicts(k) : k \in 1..n}] :
                \A k \in 1..n : cs[k] \in ContractDicts(k)}
            : n \in 0..MaxContracts }

ContractsIdle ==
    /\ contract_heap = <<>> /\ contracts = <<>> /\ updated_contracts = <<>>
    /\ idx = 0 /\ cpc = "idle"
    /\ cgiven = [heap |-> <<>>, contracts |-> <<>>]

InitContractsRun ==
    \E cs \in ContractLists :
        /\ contract_heap = cs
        /\ contracts = [k \in 1..Len(cs) |-> k]
        /\ cgiven = [heap |-> cs, contracts |-> [k \in 1..Len(cs) |-> k]]
        /\ updated_contracts = <<>>
        /\ idx = 0
        /\ cpc = "start"

\* update_contract_statuses(contracts) is called: updated_contracts = []
UpdateContractStatuses ==
    /\ cpc = "start"
    /\ updated_contracts' = <<>>
    /\ idx' = 1
    /\ cpc' = "loop"
    /\ UNCHANGED <<contract_heap, contracts, cgiven, today>>
    /\ UNCHANGED notContracts

\* one iteration of "for contract in contracts"
ContractIteration ==
    /\ cpc = "loop"
    /\ idx <= Len(contracts)
    /\ LET r == contract_step(contract_heap, contracts[idx], today)
       IN  IF r.raised
           THEN /\ cpc' = "raised"
                /\ UNCHANGED <<contract_heap, updated_contracts, idx>>
           ELSE /\ contract_heap' = r.heap
                /\ updated_contracts' = Append(updated_contracts, contracts[idx])
                /\ idx' = idx + 1
                /\ cpc' = "loop"
    /\ UNCHANGED <<contracts, cgiven, today>>
    /\ UNCHANGED notContracts

\* return updated_contracts
ContractsReturn ==
    /\ cpc = "loop"
    /\ idx > Len(contracts)
    /\ cpc' = "returned"
    /\ UNCHANGED <<contract_heap, contracts, updated_contracts, idx, cgiven, today>>
    /\ UNCHANGED notContracts

\* ------------------------------------------------------------------------
\* a direct call of is_expiring_soon

ExpiryTodays == {<<2024, 2, 15>>, <<2024, 12, 31>>, <<2025, 12, 20>>}

DateStrings ==
    {<<y, m, d>> : y \in FirstYear..LastYear, m \in 1..13, d \in 1..31} \cup {<<0, 0, 0>>}

Thresholds == {0, 1, DefaultThreshold}

ExpiryIdle ==
    /\ e_date = <<0, 0, 0>> /\ e_threshold = 0 /\ e_result = FALSE /\ e_pc = "idle"

InitExpiryCall ==
    /\ e_date \in DateStrings
    /\ e_threshold \in Thresholds
    /\ e_result = FALSE
    /\ e_pc = "start"

\* is_expiring_soon(e_date, e_threshold)
IsExpiringSoon ==
    /\ e_pc = "start"
    /\ LET r == is_expiring_soon(e_date, e_threshold, today)
       IN  IF r.ok THEN e_result' = r.val /\ e_pc' = "returned"
           ELSE e_result' = FALSE /\ e_pc' = "raised"
    /\ UNCHANGED <<e_date, e_threshold, today>>
    /\ UNCHANGED notExpiry

\* ------------------------------------------------------------------------
\* user_management_api: strings
\* A str is the sequence of its characters; an Optional value is <<>> for
\* None and <<v>> for the value v.

None == <<>>
Some(v) == <<v>>

UpperCase == <<"A", "B", "C", "D", "E", "F", "G", "H", "I", "J", "K", "L", "M",
               "N", "O", "P", "Q", "R", "S", "T", "U", "V", "W", "X", "Y", "Z">>
LowerCase == <<"a", "b", "c", "d", "e", "f", "g", "h", "i", "j", "k", "l", "m",
               "n", "o", "p", "q", "r", "s", "t", "u", "v", "w", "x", "y", "z">>
Whitespace == {" ", "\t", "\n"}

\* str.lower()
lower_char(c) ==
    IF \E i \in 1..26 : UpperCase[i] = c
    THEN LowerCase[CHOOSE i \in 1..26 : UpperCase[i] = c]
    ELSE c

lower(str) == [i \in 1..Len(str) |-> lower_char(str[i])]

\* str.strip()
RECURSIVE lstrip(_)
lstrip(str) ==
    IF str # <<>> /\ Head(str) \in Whitespace THEN lstrip(Tail(str)) ELSE str

RECURSIVE rstrip(_)
rstrip(str) ==
    IF str # <<>> /\ str[Len(str)] \in Whitespace
    THEN rstrip(SubSeq(str, 1, Len(str) - 1)) ELSE str

strip(str) == rstrip(lstrip(str))

\* "sub in str"
contains(sub, str) ==
    \E i \in 0..(Len(str) - Len(sub)) : SubSeq(str, i + 1, i + Len(sub)) = sub

\* seq[a:b]
py_slice(seq, a, b) ==
    LET n == Len(seq)
        clamp(i) == IF i < 0 THEN (IF n + i < 0 THEN 0 ELSE n + i)
                    ELSE (IF i > n THEN n ELSE i)
    IN  IF clamp(a) < clamp(b) THEN SubSeq(seq, clamp(a) + 1, clamp(b)) ELSE <<>>

\* a // b, for b # 0
py_floordiv(a, b) == IF b > 0 THEN a \div b ELSE (0 - a) \div (0 - b)

\* ------------------------------------------------------------------------
\* user_management_api: app/database.py (each method runs under self._lock)

\* email_exists that does not leave out the user being updated
db_email_exists_no_exclude(us, email, exclude_id) ==
    \E k \in 1..Len(us) : us[k].email = email

\* email_exists(email, exclude_id); exclude_id 0 is None (both are falsy)
db_email_exists(us, email, exclude_id) ==
    \E k \in 1..Len(us) :
        /\ ~(exclude_id # 0 /\ us[k].id = exclude_id)
        /\ us[k].email = email

\* user_exists(user_id)
db_user_exists(us, user_id) == \E k \in 1..Len(us) : us[k].id = user_id

\* get_user(user_id): Optional[User]
db_get_user(us, user_id) ==
    IF db_user_exists(us, user_id)
    THEN Some(us[CHOOSE k \in 1..Len(us) : us[k].id = user_id])
    ELSE None

\* get_all_users(skip, limit)
db_get_all_users(us, skip, limit) == py_slice(us, skip, skip + limit)

\* get_total_users()
db_get_total_users(us) == Len(us)

\* create_user that takes the id from the number of stored users
db_create_user_len_id(us, nid, data, now) ==
    LET user == [id |-> Len(us) + 1, name |-> data.name, email |-> data.email,
                 age |-> data.age, created_at |-> now, updated_at |-> now]
    IN  [users |-> Append(us, user), next_id |-> nid + 1, user |-> user]

\* create_user(user_data)
db_create_user(us, nid, data, now) ==
    LET user == [id |-> nid, name |-> data.name, email |-> data.email,
                 age |-> data.age, created_at |-> now, updated_at |-> now]
    IN  [users |-> Append(us, user), next_id |-> nid + 1, user |-> user]

\* update_user that assigns every field of the update, None included
db_update_user_all_fields(us, user_id, data, now) ==
    IF ~db_user_exists(us, user_id) THEN [users |-> us, user |-> None]
    ELSE LET k == CHOOSE j \in 1..Len(us) : us[j].id = user_id
             user == [us[k] EXCEPT
                        !.name = IF data.name # None THEN data.name[1] ELSE @,
                        !.email = IF data.email # None THEN data.email[1] ELSE @,
                        !.age = data.age,
                        !.updated_at = now]
         IN  [users |-> [us EXCEPT ![k] = user], user |-> Some(user)]

\* update_user(user_id, user_data): Optional[User]
db_update_user(us, user_id, data, now) ==
    IF ~db_user_exists(us, user_id) THEN [users |-> us, user |-> None]
    ELSE LET k == CHOOSE j \in 1..Len(us) : us[j].id = user_id
             user == [us[k] EXCEPT
                        !.name = IF data.name # None THEN data.name[1] ELSE @,
                        !.email = IF data.email # None THEN data.email[1] ELSE @,
                        !.age = IF data.age # None THEN data.age ELSE @,
                        !.updated_at = now]
         IN  [users |-> [us EXCEPT ![k] = user], user |-> Some(user)]

\* delete_user(user_id): bool
db_delete_user(us, user_id) ==
    IF db_user_exists(us, user_id)
    THEN [users |-> SelectSeq(us, LAMBDA u : u.id # user_id), deleted |-> TRUE]
    ELSE [users |-> us, deleted |-> FALSE]

\* ------------------------------------------------------------------------
\* user_management_api: app/services.py
\* A UserService call runs in a thread; between two database methods other
\* threads may run.

ServiceThreads == {"t1", "t2"}

MaxCreates == 2

\* the instants at which the clock is read
Instants == {0, 1}

Names == {<<"A", "l">>, <<"B", "o">>}
EmailLocal == <<"A", "b", "c", "d", "e", "f">>
EmailAt(k) == <<EmailLocal[k], "@", "x">>

\* UserCreate and UserUpdate objects, as pydantic lets them be built
CreateInputs ==
    {[name |-> <<"A", "l">>, email |-> EmailAt(k), age |-> None] : k \in 1..2}

UpdateInputs ==
    {[name |-> n, email |-> m, age |-> a] :
        n \in {None, Some(<<"B", "o">>)},
        m \in {None, Some(EmailAt(1)), Some(EmailAt(2))},
        a \in {None, Some(31)}}

AskedIds == 1..MaxCreates

NoCall == [op |-> "none", user_id |-> 0, data |-> [name |-> None, email |-> None, age |-> None],
           query |-> <<>>, skip |-> 0, limit |-> 0]

NoResp == [status |-> 0, users |-> <<>>, total |-> 0, page |-> 0, size |-> 0,
           has_next |-> FALSE, flag |-> FALSE]

\* a User, the bool of delete_user, a UserList, or the status of the
\* HTTPException raised
UserResp(u) == [NoResp EXCEPT !.status = 200, !.users = <<u>>]
BoolResp(b) == [NoResp EXCEPT !.status = 200, !.flag = b]
ErrorResp(code) == [NoResp EXCEPT !.status = code]

\* get_users that reports a next page also when the page ends the list
user_list_inclusive(found, total, skip, limit) ==
    [NoResp EXCEPT !.status = 200, !.users = found, !.total = total,
                   !.page = py_floordiv(skip, limit) + 1, !.size = limit,
                   !.has_next = (skip + limit) <= total]

\* UserList(users=..., total=..., page=(skip // limit) + 1, size=limit,
\*          has_next=(skip + limit) < total)
user_list(found, total, skip, limit) ==
    [NoResp EXCEPT !.status = 200, !.users = found, !.total = total,
                   !.page = py_floordiv(skip, limit) + 1, !.size = limit,
                   !.has_next = (skip + limit) < total]

\* get_users: if skip < 0: skip = 0
norm_skip(skip) == IF skip < 0 THEN 0 ELSE skip
\* get_users: if limit <= 0 or limit > 1000: limit = 100
norm_limit(limit) == IF limit <= 0 \/ limit > 1000 THEN 100 ELSE limit

Store == [users |-> db_users, next_id |-> db_next_id]

ServiceIdle ==
    /\ db_users = <<>> /\ db_next_id = 1 /\ clock = 0
    /\ t_pc = [t \in ServiceThreads |-> "off"]
    /\ t_call = [t \in ServiceThreads |-> NoCall]
    /\ t_tmp = [t \in ServiceThreads |-> <<>>]
    /\ t_resp = [t \in ServiceThreads |-> NoResp]
    /\ t_pre = [t \in ServiceThreads |-> [users |-> <<>>, next_id |-> 1]]
    /\ created_ids = <<>> /\ deleted_ids = {}

\* user_db = InMemoryUserDB(): an empty store
InitServiceEmpty ==
    /\ db_users = <<>> /\ db_next_id = 1 /\ clock = 0
    /\ t_pc = [t \in ServiceThreads |-> "idle"]
    /\ t_call = [t \in ServiceThreads |-> NoCall]
    /\ t_tmp = [t \in ServiceThreads |-> <<>>]
    /\ t_resp = [t \in ServiceThreads |-> NoResp]
    /\ t_pre = [t \in ServiceThreads |-> [users |-> <<>>, next_id |-> 1]]
    /\ created_ids = <<>> /\ deleted_ids = {}

\* time passes
Tick ==
    /\ \E t \in ServiceThreads : t_pc[t] # "off"
    /\ \E c \in Instants : c > clock /\ clock' = c
    /\ UNCHANGED <<db_users, db_next_id, t_pc, t_call, t_tmp, t_resp, t_pre,
                   created_ids, deleted_ids>>
    /\ UNCHANGED notService

\* a thread calls a UserService method
Begin(t, call, at) ==
    /\ t_pc[t] \in {"idle", "done"}
    /\ t_call' = [t_call EXCEPT ![t] = call]
    /\ t_pc' = [t_pc EXCEPT ![t] = at]
    /\ t_tmp' = [t_tmp EXCEPT ![t] = <<>>]
    /\ t_resp' = [t_resp EXCEPT ![t] = NoResp]
    /\ t_pre' = [t_pre EXCEPT ![t] = Store]
    /\ UNCHANGED <<db_users, db_next_id, clock, created_ids, deleted_ids>>
    /\ UNCHANGED notService

\* the call of a thread returns or raises
End(t, resp) ==
    /\ t_pc' = [t_pc EXCEPT ![t] = "done"]
    /\ t_resp' = [t_resp EXCEPT ![t] = resp]

Goto(t, at) ==
    /\ t_pc' = [t_pc EXCEPT ![t] = at]
    /\ UNCHANGED t_resp

\* UserService.create_user(user_data)
StartCreateUser(t) ==
    /\ db_next_id <= MaxCreates
    /\ \E d \in CreateInputs :
        Begin(t, [NoCall EXCEPT !.op = "create_user", !.data = d], "create_user:17")

\* lines 17-22: the email and age checks
CreateUserValidate(t) ==
    /\ t_pc[t] = "create_user:17"
    /\ LET d == t_call[t].data
       IN  IF db_email_exists(db_users, d.email, 0) THEN End(t, ErrorResp(409))
           ELSE IF d.age # None /\ d.age[1] <= 0 THEN End(t, ErrorResp(422))
           ELSE Goto(t, "create_user:25")
    /\ UNCHANGED <<db_users, db_next_id, clock, t_call, t_tmp, t_pre,
                   created_ids, deleted_ids>>
    /\ UNCHANGED notService

\* lines 24-28: user_db.create_user(user_data)
CreateUserWrite(t) ==
    /\ t_pc[t] = "create_user:25"
    /\ LET r == db_create_user(db_users, db_next_id, t_call[t].data, clock)
       IN  /\ db_users' = r.users
           /\ db_next_id' = r.next_id
           /\ created_ids' = Append(created_ids, r.user.id)
           /\ End(t, UserResp(r.user))
    /\ UNCHANGED <<clock, t_call, t_tmp, t_pre, deleted_ids>>
    /\ UNCHANGED notService

\* UserService.get_user(user_id)
StartGetUser(t) ==
    \E id \in AskedIds :
        Begin(t, [NoCall EXCEPT !.op = "get_user", !.user_id = id], "get_user:33")

\* lines 33-36
GetUser(t) ==
    /\ t_pc[t] = "get_user:33"
    /\ LET user == db_get_user(db_users, t_call[t].user_id)
       IN  IF user = None THEN End(t, ErrorResp(404))
           ELSE End(t, UserResp(user[1]))
    /\ UNCHANGED <<db_users, db_next_id, clock, t_call, t_tmp, t_pre,
                   created_ids, deleted_ids>>
    /\ UNCHANGED notService

\* UserService.update_user(user_id, user_data)
StartUpdateUser(t) ==
    \E id \in AskedIds, d \in UpdateInputs :
        Begin(t, [NoCall EXCEPT !.op = "update_user", !.user_id = id, !.data = d],
              "update_user:61")

\* update_user without the existence check
UpdateUserExists_unchecked(t) ==
    /\ t_pc[t] = "update_user:61"
    /\ Goto(t, "update_user:65")
    /\ UNCHANGED <<db_users, db_next_id, clock, t_call, t_tmp, t_pre,
                   created_ids, deleted_ids>>
    /\ UNCHANGED notService

\* lines 61-62: the user must exist
UpdateUserExists(t) ==
    /\ t_pc[t] = "update_user:61"
    /\ IF ~db_user_exists(db_users, t_call[t].user_id) THEN End(t, ErrorResp(404))
       ELSE Goto(t, "update_user:65")
    /\ UNCHANGED <<db_users, db_next_id, clock, t_call, t_tmp, t_pre,
                   created_ids, deleted_ids>>
    /\ UNCHANGED notService

\* lines 65-71: the email and age checks
UpdateUserValidate(t) ==
    /\ t_pc[t] = "update_user:65"
    /\ LET d == t_call[t].data
       IN  IF d.email # None /\ db_email_exists(db_users, d.email[1], t_call[t].user_id)
           THEN End(t, ErrorResp(409))
           ELSE IF d.age # None /\ d.age[1] <= 0 THEN End(t, ErrorResp(422))
           ELSE Goto(t, "update_user:74")
    /\ UNCHANGED <<db_users, db_next_id, clock, t_call, t_tmp, t_pre,
                   created_ids, deleted_ids>>
    /\ UNCHANGED notService

\* lines 73-79: user_db.update_user(user_id, user_data); the
\* UserNotFoundError raised inside the try is caught by "except Exception"
\* and becomes InvalidUserDataError
UpdateUserWrite(t) ==
    /\ t_pc[t] = "update_user:74"
    /\ LET r == db_update_user(db_users, t_call[t].user_id, t_call[t].data, clock)
       IN  /\ db_users' = r.users
           /\ IF r.user = None THEN End(t, ErrorResp(422))
              ELSE End(t, UserResp(r.user[1]))
    /\ UNCHANGED <<db_next_id, clock, t_call, t_tmp, t_pre, created_ids, deleted_ids>>
    /\ UNCHANGED notService

\* UserService.delete_user(user_id)
StartDeleteUser(t) ==
    \E id \in AskedIds :
        Begin(t, [NoCall EXCEPT !.op = "delete_user", !.user_id = id], "delete_user:84")

\* lines 84-85: the user must exist
DeleteUserExists(t) ==
    /\ t_pc[t] = "delete_user:84"
    /\ IF ~db_user_exists(db_users, t_call[t].user_id) THEN End(t, ErrorResp(404))
       ELSE Goto(t, "delete_user:88")
    /\ UNCHANGED <<db_users, db_next_id, clock, t_call, t_tmp, t_pre,
                   created_ids, deleted_ids>>
    /\ UNCHANGED notService

\* lines 87-90: return user_db.delete_user(user_id)
DeleteUserWrite(t) ==
    /\ t_pc[t] = "delete_user:88"
    /\ LET r == db_delete_user(db_users, t_call[t].user_id)
       IN  /\ db_users' = r.users
           /\ deleted_ids' = IF r.deleted THEN deleted_ids \cup {t_call[t].user_id}
                             ELSE deleted_ids
           /\ End(t, BoolResp(r.deleted))
    /\ UNCHANGED <<db_next_id, clock, t_call, t_tmp, t_pre, created_ids>>
    /\ UNCHANGED notService

\* UserService.get_users(skip, limit)
Skips == {-1, 0, 1, 2}
Limits == {-1, 0, 1, 2, 1000, 1001}

StartGetUsers(t) ==
    \E sk \in Skips, lim \in Limits :
        Begin(t, [NoCall EXCEPT !.op = "get_users", !.skip = sk, !.limit = lim],
              "get_users:41")

\* lines 41-46: skip and limit are put in range, then
\* users = user_db.get_all_users(skip, limit)
GetUsersPage(t) ==
    /\ t_pc[t] = "get_users:41"
    /\ t_tmp' = [t_tmp EXCEPT ![t] = db_get_all_users(db_users, norm_skip(t_call[t].skip),
                                                      norm_limit(t_call[t].limit))]
    /\ t_pre' = [t_pre EXCEPT ![t] = Store]
    /\ Goto(t, "get_users:47")
    /\ UNCHANGED <<db_users, db_next_id, clock, t_call, created_ids, deleted_ids>>
    /\ UNCHANGED notService

\* lines 47-55: total = user_db.get_total_users(); return UserList(...)
GetUsersTotal(t) ==
    /\ t_pc[t] = "get_users:47"
    /\ End(t, user_list(t_tmp[t], db_get_total_users(db_users),
                        norm_skip(t_call[t].skip), norm_limit(t_call[t].limit)))
    /\ UNCHANGED <<db_users, db_next_id, clock, t_call, t_tmp, t_pre,
                   created_ids, deleted_ids>>
    /\ UNCHANGED notService

\* UserService.search_users(query, skip, limit)
Queries == {<<>>, <<" ">>, <<"a">>, <<" ", "b", " ">>, <<"a", "l">>, <<" ", "A", "L", " ">>,
            <<"@", "x">>, <<"b", "@">>, <<"z", "z">>}

StartSearchUsers(t) ==
    \E q \in Queries, sk \in Skips, lim \in Limits :
        Begin(t, [NoCall EXCEPT !.op = "search_users", !.query = q, !.skip = sk,
                                !.limit = lim],
              "search_users:96")

\* the users of all_users whose name or email contains the query
matching_users(all_users, query) ==
    SelectSeq(all_users, LAMBDA user : \/ contains(query, lower(user.name))
                                       \/ contains(query, lower(user.email)))

\* lines 96-123: a query that is empty, blank or shorter than 2 after strip
\* is answered by get_users(skip, limit); otherwise the matching users are
\* collected and sliced with skip and limit as given, and skip // limit
\* raises ZeroDivisionError when limit is 0
SearchUsers(t) ==
    /\ t_pc[t] = "search_users:96"
    /\ LET c == t_call[t]
       IN  IF c.query = <<>> \/ strip(c.query) = <<>> \/ Len(strip(c.query)) < 2
           THEN Goto(t, "get_users:41")
           ELSE LET found == matching_users(db_get_all_users(db_users, 0, 10000),
                                            lower(strip(c.query)))
                IN  IF c.limit = 0 THEN End(t, ErrorResp(500))
                    ELSE End(t, user_list(py_slice(found, c.skip, c.skip + c.limit),
                                          Len(found), c.skip, c.limit))
    /\ UNCHANGED <<db_users, db_next_id, clock, t_call, t_tmp, t_pre,
                   created_ids, deleted_ids>>
    /\ UNCHANGED notService

\* a store as successive create_user calls leave it
MaxStored == 3

StoredUsers ==
    UNION {{[k \in 1..n |-> [id |-> k, name |-> names[k], email |-> EmailAt(k),
                             age |-> None, created_at |-> 0, updated_at |-> 0]] :
                names \in [1..n -> Names]} : n \in 0..MaxStored}

InitServiceStored ==
    /\ db_users \in StoredUsers
    /\ db_next_id = Len(db_users) + 1
    /\ clock = 0
    /\ t_pc = [t \in ServiceThreads |-> "idle"]
    /\ t_call = [t \in ServiceThreads |-> NoCall]
    /\ t_tmp = [t \in ServiceThreads |-> <<>>]
    /\ t_resp = [t \in ServiceThreads |-> NoResp]
    /\ t_pre = [t \in ServiceThreads |-> Store]
    /\ created_ids = [k \in 1..Len(db_users) |-> k]
    /\ deleted_ids = {}

\* ------------------------------------------------------------------------
\* user_management_api: app/main.py, the rate limiting dependency

RATE_LIMIT_WINDOW == 60
MAX_REQUESTS_PER_WINDOW == 100

ClientIps == {"10.0.0.1", "10.0.0.2"}

\* the instants at which requests arrive
RequestTimes == {0, 59, 60}

\* lines 104-107: [ts for ts in ... if current_time - ts < RATE_LIMIT_WINDOW]
clean_old_timestamps(timestamps, now) ==
    SelectSeq(timestamps, LAMBDA ts : now - ts < RATE_LIMIT_WINDOW)

\* the test that lets one request more through
limit_exceeded_strict(timestamps) == Len(timestamps) > MAX_REQUESTS_PER_WINDOW

\* line 110: len(rate_limit_store[client_ip]) >= MAX_REQUESTS_PER_WINDOW
limit_exceeded(timestamps) == Len(timestamps) >= MAX_REQUESTS_PER_WINDOW

NoRateResp == [ip |-> "", status |-> 0, prior |-> 0]

NoRateStatus == [ip |-> "", requests_in_window |-> 0, remaining_requests |-> 0, counted |-> 0]

\* the admitted requests of ip whose timestamp is less than a window old
AdmittedInWindow(ip) ==
    LET RECURSIVE Sum(_)
        Sum(T) == IF T = {} THEN 0
                  ELSE LET ts == CHOOSE x \in T : TRUE
                       IN  admitted[ip][ts] + Sum(T \ {ts})
    IN  Sum({ts \in RequestTimes : current_time - ts < RATE_LIMIT_WINDOW})

RateIdle ==
    /\ rate_limit_store = [ip \in ClientIps |-> <<>>]
    /\ current_time = 0
    /\ rate_resp = NoRateResp
    /\ rate_status = NoRateStatus
    /\ admitted = [ip \in ClientIps |-> [ts \in RequestTimes |-> 0]]

\* check_rate_limit(request): no await inside, so it runs as one step
check_rate_limit(ip) ==
    LET cleaned == clean_old_timestamps(rate_limit_store[ip], current_time)
    IN  /\ IF limit_exceeded(cleaned)
           THEN /\ rate_limit_store' = [rate_limit_store EXCEPT ![ip] = cleaned]
                /\ rate_resp' = [ip |-> ip, status |-> 429, prior |-> AdmittedInWindow(ip)]
                /\ UNCHANGED admitted
           ELSE /\ rate_limit_store' =
                       [rate_limit_store EXCEPT ![ip] = Append(cleaned, current_time)]
                /\ rate_resp' = [ip |-> ip, status |-> 200, prior |-> AdmittedInWindow(ip)]
                /\ admitted' = [admitted EXCEPT ![ip][current_time] = @ + 1]
        /\ UNCHANGED <<current_time, rate_status>>

\* a request to an endpoint whose handler is not followed further
CheckRateLimit(ip) ==
    /\ check_rate_limit(ip)
    /\ UNCHANGED notRate

\* time passes between requests
AdvanceTime ==
    /\ \E t \in RequestTimes : t > current_time /\ current_time' = t
    /\ UNCHANGED <<rate_limit_store, rate_resp, admitted, rate_status>>
    /\ UNCHANGED notRate

\* a status request that is counted like a rate-limited request
get_rate_limit_status_counted(ip) ==
    LET cleaned == clean_old_timestamps(rate_limit_store[ip], current_time)
    IN  /\ rate_limit_store' = [rate_limit_store EXCEPT ![ip] = Append(cleaned, current_time)]
        /\ rate_status' = [ip |-> ip,
                           requests_in_window |-> Len(cleaned) + 1,
                           remaining_requests |->
                               IF MAX_REQUESTS_PER_WINDOW - (Len(cleaned) + 1) > 0
                               THEN MAX_REQUESTS_PER_WINDOW - (Len(cleaned) + 1) ELSE 0,
                           counted |-> AdmittedInWindow(ip)]
        /\ UNCHANGED <<current_time, rate_resp, admitted>>

\* get_rate_limit_status(request): the list of the IP is cleaned and
\* counted; nothing is appended
get_rate_limit_status(ip) ==
    LET cleaned == clean_old_timestamps(rate_limit_store[ip], current_time)
    IN  /\ rate_limit_store' = [rate_limit_store EXCEPT ![ip] = cleaned]
        /\ rate_status' = [ip |-> ip,
                           requests_in_window |-> Len(cleaned),
                           remaining_requests |->
                               IF MAX_REQUESTS_PER_WINDOW - Len(cleaned) > 0
                               THEN MAX_REQUESTS_PER_WINDOW - Len(cleaned) ELSE 0,
                           counted |-> AdmittedInWindow(ip)]
        /\ UNCHANGED <<current_time, rate_resp, admitted>>

\* GET /rate-limit-status
GetRateLimitStatus(ip) ==
    /\ get_rate_limit_status(ip)
    /\ UNCHANGED notRate

\* ------------------------------------------------------------------------
\* user_management_api: app/main.py, the /users endpoints
\* A handler runs on the event loop up to its next "async with"; taking a
\* lock is one step and the code up to the next "async with" is one step.

MainRequests == {"r1", "r2"}
\* the requests come from one client
ClientOf == [r \in MainRequests |-> "10.0.0.1"]

MaxRequests == 3

NoReq == [method |-> "", user_id |-> 0, data |-> [name |-> <<>>, email |-> <<>>, age |-> None]]
NoMainResp == [status |-> 0, body |-> <<>>]

\* UserCreate bodies of POST /users
PostInputs == {[name |-> <<"A", "l">>, email |-> EmailAt(k), age |-> None] : k \in 1..2}

MainIdle ==
    /\ users_db = <<>> /\ next_id = 1
    /\ users_lock = "" /\ id_lock = "" /\ file_lock = ""
    /\ output_file = None
    /\ m_pc = [r \in MainRequests |-> "off"]
    /\ m_req = [r \in MainRequests |-> NoReq]
    /\ m_resp = [r \in MainRequests |-> NoMainResp]
    /\ m_created = <<>> /\ m_deleted = {} /\ m_count = 0

\* users_db = load_users() without sample_data.json; next_id = len(users_db) + 1
InitMainEmpty ==
    /\ users_db = <<>> /\ next_id = Len(users_db) + 1
    /\ users_lock = "" /\ id_lock = "" /\ file_lock = ""
    /\ output_file = None
    /\ m_pc = [r \in MainRequests |-> "idle"]
    /\ m_req = [r \in MainRequests |-> NoReq]
    /\ m_resp = [r \in MainRequests |-> NoMainResp]
    /\ m_created = <<>> /\ m_deleted = {} /\ m_count = 0

\* the index of the first user with the id, or 0:
\* next((i for i, u in enumerate(users_db) if u["id"] == user_id), None)
user_index(db, user_id) ==
    IF \E i \in 1..Len(db) : db[i].id = user_id
    THEN CHOOSE i \in 1..Len(db) : db[i].id = user_id /\ \A j \in 1..(i - 1) : db[j].id # user_id
    ELSE 0

\* a request arrives and its dependency check_rate_limit runs
MainRequest(r, req, at) ==
    /\ m_pc[r] \in {"idle", "done"}
    /\ m_count < MaxRequests
    /\ m_count' = m_count + 1
    /\ check_rate_limit(ClientOf[r])
    /\ m_req' = [m_req EXCEPT ![r] = req]
    /\ IF rate_resp'.status = 429
       THEN /\ m_pc' = [m_pc EXCEPT ![r] = "done"]
            /\ m_resp' = [m_resp EXCEPT ![r] = [status |-> 429, body |-> <<>>]]
       ELSE /\ m_pc' = [m_pc EXCEPT ![r] = at]
            /\ m_resp' = [m_resp EXCEPT ![r] = NoMainResp]
    /\ UNCHANGED <<users_db, next_id, users_lock, id_lock, file_lock, output_file,
                   m_created, m_deleted>>
    /\ UNCHANGED notMain

\* async with users_lock: the handler goes on once the lock is free
AcquireUsersLock(r, at, to) ==
    /\ m_pc[r] = at
    /\ users_lock = ""
    /\ users_lock' = r
    /\ m_pc' = [m_pc EXCEPT ![r] = to]
    /\ UNCHANGED <<users_db, next_id, id_lock, file_lock, output_file, m_req, m_resp,
                   m_created, m_deleted, m_count>>
    /\ UNCHANGED <<notMain, rateVars>>

\* async with file_lock
AcquireFileLock(r, at, to) ==
    /\ m_pc[r] = at
    /\ file_lock = ""
    /\ file_lock' = r
    /\ m_pc' = [m_pc EXCEPT ![r] = to]
    /\ UNCHANGED <<users_db, next_id, users_lock, id_lock, output_file, m_req, m_resp,
                   m_created, m_deleted, m_count>>
    /\ UNCHANGED <<notMain, rateVars>>

\* a handler that leaves its locks held when it returns
WriteOutputFile_keeps_lock(r, at, resp) ==
    /\ m_pc[r] = at
    /\ output_file' = Some(users_db)
    /\ file_lock' = ""
    /\ m_resp' = [m_resp EXCEPT ![r] = resp]
    /\ m_pc' = [m_pc EXCEPT ![r] = "done"]
    /\ UNCHANGED <<users_db, next_id, users_lock, id_lock, m_req, m_created, m_deleted,
                   m_count>>
    /\ UNCHANGED <<notMain, rateVars>>

\* json.dump({"users": users_db}, f) into output_users.json, then the exit
\* of "async with file_lock" and of "async with users_lock", and the return
WriteOutputFile(r, at, resp) ==
    /\ m_pc[r] = at
    /\ output_file' = Some(users_db)
    /\ file_lock' = ""
    /\ users_lock' = ""
    /\ m_resp' = [m_resp EXCEPT ![r] = resp]
    /\ m_pc' = [m_pc EXCEPT ![r] = "done"]
    /\ UNCHANGED <<users_db, next_id, id_lock, m_req, m_created, m_deleted, m_count>>
    /\ UNCHANGED <<notMain, rateVars>>

\* open(...) or json.dump(...) raises: the file stays as it was (open
\* failed) or holds no user list (the write broke off); the locks are
\* released on the way out and "except Exception" answers 500
WriteOutputFileFails(r, at) ==
    /\ m_pc[r] = at
    /\ output_file' \in {output_file, None}
    /\ file_lock' = ""
    /\ users_lock' = ""
    /\ m_resp' = [m_resp EXCEPT ![r] = [status |-> 500, body |-> <<>>]]
    /\ m_pc' = [m_pc EXCEPT ![r] = "done"]
    /\ UNCHANGED <<users_db, next_id, id_lock, m_req, m_created, m_deleted, m_count>>
    /\ UNCHANGED <<notMain, rateVars>>

\* POST /users
PostUsers(r) ==
    /\ next_id <= MaxCreates
    /\ \E d \in PostInputs :
        MainRequest(r, [NoReq EXCEPT !.method = "POST", !.data = d], "create_user:161")

\* line 161: async with users_lock
PostUsersLock(r) == AcquireUsersLock(r, "create_user:161", "create_user:162")

\* line 162: async with id_lock
PostUsersIdLock(r) ==
    /\ m_pc[r] = "create_user:162"
    /\ id_lock = ""
    /\ id_lock' = r
    /\ m_pc' = [m_pc EXCEPT ![r] = "create_user:163"]
    /\ UNCHANGED <<users_db, next_id, users_lock, file_lock, output_file, m_req, m_resp,
                   m_created, m_deleted, m_count>>
    /\ UNCHANGED <<notMain, rateVars>>

\* lines 163-166: the new user gets next_id and is appended; id_lock is
\* released
PostUsersAssignId(r) ==
    /\ m_pc[r] = "create_user:163"
    /\ LET new_user == [id |-> next_id, name |-> m_req[r].data.name,
                        email |-> m_req[r].data.email, age |-> m_req[r].data.age]
       IN  /\ users_db' = Append(users_db, new_user)
           /\ next_id' = next_id + 1
           /\ m_created' = Append(m_created, new_user.id)
           /\ m_resp' = [m_resp EXCEPT ![r] = [status |-> 0, body |-> <<new_user>>]]
    /\ id_lock' = ""
    /\ m_pc' = [m_pc EXCEPT ![r] = "create_user:169"]
    /\ UNCHANGED <<users_lock, file_lock, output_file, m_req, m_deleted, m_count>>
    /\ UNCHANGED <<notMain, rateVars>>

\* line 169: async with file_lock
PostUsersFileLock(r) == AcquireFileLock(r, "create_user:169", "create_user:171")

\* lines 171-178: the file is rewritten and new_user is returned
PostUsersWrite(r) ==
    WriteOutputFile(r, "create_user:171", [m_resp[r] EXCEPT !.status = 200])

\* lines 172-173 raise, lines 180-182 answer
PostUsersWriteFails(r) == WriteOutputFileFails(r, "create_user:171")

\* GET /users
GetUsers(r) == MainRequest(r, [NoReq EXCEPT !.method = "LIST"], "get_users:189")

\* line 189: async with users_lock
GetUsersLock(r) == AcquireUsersLock(r, "get_users:189", "get_users:190")

\* lines 190-193: users = users_db.copy(); the lock is released
GetUsersCopy(r) ==
    /\ m_pc[r] = "get_users:190"
    /\ users_lock' = ""
    /\ m_resp' = [m_resp EXCEPT ![r] = [status |-> 200, body |-> users_db]]
    /\ m_pc' = [m_pc EXCEPT ![r] = "done"]
    /\ UNCHANGED <<users_db, next_id, id_lock, file_lock, output_file, m_req,
                   m_created, m_deleted, m_count>>
    /\ UNCHANGED <<notMain, rateVars>>

\* GET /users/{user_id}
GetUserById(r) ==
    \E id \in AskedIds :
        MainRequest(r, [NoReq EXCEPT !.method = "GET", !.user_id = id], "get_user:203")

\* line 203: async with users_lock
GetUserByIdLock(r) == AcquireUsersLock(r, "get_user:203", "get_user:204")

\* lines 204-213: the first user with the id, or 404; the lock is released
GetUserByIdFind(r) ==
    /\ m_pc[r] = "get_user:204"
    /\ LET i == user_index(users_db, m_req[r].user_id)
       IN  m_resp' = [m_resp EXCEPT ![r] =
                        IF i = 0 THEN [status |-> 404, body |-> <<>>]
                        ELSE [status |-> 200, body |-> <<users_db[i]>>]]
    /\ users_lock' = ""
    /\ m_pc' = [m_pc EXCEPT ![r] = "done"]
    /\ UNCHANGED <<users_db, next_id, id_lock, file_lock, output_file, m_req,
                   m_created, m_deleted, m_count>>
    /\ UNCHANGED <<notMain, rateVars>>

\* UserUpdate bodies of PATCH /users/{user_id}: a field is <<>> when unset
\* and <<value>> when set (user_update.dict(exclude_unset=True))
PatchInputs ==
    {[name |-> <<>>, email |-> <<>>, age |-> <<>>],
     [name |-> <<<<"B", "o">>>>, email |-> <<>>, age |-> <<>>],
     [name |-> <<>>, email |-> <<>>, age |-> <<Some(31)>>]}

\* PATCH /users/{user_id}
PatchUser(r) ==
    \E id \in AskedIds, d \in PatchInputs :
        MainRequest(r, [NoReq EXCEPT !.method = "PATCH", !.user_id = id, !.data = d],
                    "update_user:233")

\* line 233: async with users_lock
PatchUserLock(r) == AcquireUsersLock(r, "update_user:233", "update_user:235")

\* lines 235-250: 404 (the lock is released), or the fields that are set are
\* assigned to the stored user
PatchUserApply(r) ==
    /\ m_pc[r] = "update_user:235"
    /\ LET i == user_index(users_db, m_req[r].user_id)
           d == m_req[r].data
       IN  IF i = 0
           THEN /\ m_resp' = [m_resp EXCEPT ![r] = [status |-> 404, body |-> <<>>]]
                /\ m_pc' = [m_pc EXCEPT ![r] = "done"]
                /\ users_lock' = ""
                /\ UNCHANGED users_db
           ELSE LET existing_user ==
                        [users_db[i] EXCEPT
                            !.name = IF d.name # <<>> THEN d.name[1] ELSE @,
                            !.email = IF d.email # <<>> THEN d.email[1] ELSE @,
                            !.age = IF d.age # <<>> THEN d.age[1] ELSE @,
                            !.id = m_req[r].user_id]
                IN  /\ users_db' = [users_db EXCEPT ![i] = existing_user]
                    /\ m_resp' = [m_resp EXCEPT ![r] = [status |-> 0, body |-> <<existing_user>>]]
                    /\ m_pc' = [m_pc EXCEPT ![r] = "update_user:253"]
                    /\ UNCHANGED users_lock
    /\ UNCHANGED <<next_id, id_lock, file_lock, output_file, m_req, m_created, m_deleted,
                   m_count>>
    /\ UNCHANGED <<notMain, rateVars>>

\* line 253: async with file_lock
PatchUserFileLock(r) == AcquireFileLock(r, "update_user:253", "update_user:255")

\* lines 255-262: the file is rewritten and existing_user is returned
PatchUserWrite(r) ==
    WriteOutputFile(r, "update_user:255", [m_resp[r] EXCEPT !.status = 200])

\* lines 256-257 raise, lines 266-268 answer
PatchUserWriteFails(r) == WriteOutputFileFails(r, "update_user:255")

\* DELETE /users/{user_id}
DeleteUserById(r) ==
    \E id \in AskedIds :
        MainRequest(r, [NoReq EXCEPT !.method = "DELETE", !.user_id = id], "delete_user:276")

\* line 276: async with users_lock
DeleteUserByIdLock(r) == AcquireUsersLock(r, "delete_user:276", "delete_user:278")

\* lines 278-288: 404 (the lock is released), or the user is popped
DeleteUserByIdRemove(r) ==
    /\ m_pc[r] = "delete_user:278"
    /\ LET i == user_index(users_db, m_req[r].user_id)
       IN  IF i = 0
           THEN /\ m_resp' = [m_resp EXCEPT ![r] = [status |-> 404, body |-> <<>>]]
                /\ m_pc' = [m_pc EXCEPT ![r] = "done"]
                /\ users_lock' = ""
                /\ UNCHANGED <<users_db, m_deleted>>
           ELSE /\ users_db' = SubSeq(users_db, 1, i - 1) \o SubSeq(users_db, i + 1, Len(users_db))
                /\ m_deleted' = m_deleted \cup {m_req[r].user_id}
                /\ m_pc' = [m_pc EXCEPT ![r] = "delete_user:291"]
                /\ UNCHANGED <<m_resp, users_lock>>
    /\ UNCHANGED <<next_id, id_lock, file_lock, output_file, m_req, m_created, m_count>>
    /\ UNCHANGED <<notMain, rateVars>>

\* line 291: async with file_lock
DeleteUserByIdFileLock(r) == AcquireFileLock(r, "delete_user:291", "delete_user:293")

\* lines 293-300: the file is rewritten and the message is returned
DeleteUserByIdWrite(r) ==
    WriteOutputFile(r, "delete_user:293", [status |-> 200, body |-> <<>>])

\* lines 294-295 raise, lines 304-306 answer
DeleteUserByIdWriteFails(r) == WriteOutputFileFails(r, "delete_user:293")

\* ------------------------------------------------------------------------
\* contract_summarization_api: app/services.py

\* text.find(ch): the 0-based position of the first ch, or -1
str_find(str, ch) ==
    IF \E i \in 1..Len(str) : str[i] = ch
    THEN (CHOOSE i \in 1..Len(str) : str[i] = ch /\ \A j \in 1..(i - 1) : str[j] # ch) - 1
    ELSE -1

\* str.split(): the maximal runs of non-whitespace characters, from the left
RECURSIVE split(_)
split(str) ==
    LET rest == lstrip(str)
    IN  IF rest = <<>> THEN <<>>
        ELSE LET stop == IF \E i \in 1..Len(rest) : rest[i] \in Whitespace
                         THEN CHOOSE i \in 1..Len(rest) :
                                  /\ rest[i] \in Whitespace
                                  /\ \A j \in 1..(i - 1) : rest[j] \notin Whitespace
                         ELSE Len(rest) + 1
             IN  <<SubSeq(rest, 1, stop - 1)>> \o split(SubSeq(rest, stop, Len(rest)))

\* ' '.join(words)
RECURSIVE join(_)
join(words) ==
    IF words = <<>> THEN <<>>
    ELSE IF Len(words) = 1 THEN words[1]
    ELSE words[1] \o <<" ">> \o join(Tail(words))

\* lines 35-38: the smallest position of '.', '!' and '?', or -1
RECURSIVE scan_endings(_, _, _)
scan_endings(str, sentence_endings, first_sentence_end) ==
    IF sentence_endings = <<>> THEN first_sentence_end
    ELSE LET pos == str_find(str, Head(sentence_endings))
         IN  scan_endings(str, Tail(sentence_endings),
                          IF pos # -1 /\ (first_sentence_end = -1 \/ pos < first_sentence_end)
                          THEN pos ELSE first_sentence_end)

\* the word limit that cuts a text of exactly 25 words
limit_words_strict(str, words) ==
    IF Len(words) < 25 THEN str
    ELSE join(SubSeq(words, 1, 25)) \o <<".", ".", ".">>

\* lines 45-48 and 52-55: the string itself when it has at most 25 words,
\* else ' '.join(words[:25]) + '...'
limit_words(str, words) ==
    IF Len(words) <= 25 THEN str
    ELSE join(py_slice(words, 0, 25)) \o <<".", ".", ".">>

\* ContractSummarizationService.extract_summary(text)
extract_summary(str) ==
    IF str = <<>> THEN <<>>
    ELSE LET first_sentence_end == scan_endings(str, <<".", "!", "?">>, -1)
         IN  IF first_sentence_end # -1
             THEN LET first_sentence == strip(py_slice(str, 0, first_sentence_end + 1))
                  IN  limit_words(first_sentence, split(first_sentence))
             ELSE limit_words(strip(str), split(str))

\* the texts: some leading whitespace, words, a sentence ending, a rest
WordAt(k) == IF k % 3 = 0 THEN <<"a">> ELSE IF k % 3 = 1 THEN <<"b", "c">> ELSE <<"d">>

RECURSIVE Phrase(_, _, _)
Phrase(from, to, gap) ==
    IF from > to THEN <<>>
    ELSE IF from = to THEN WordAt(from)
    ELSE WordAt(from) \o gap \o Phrase(from + 1, to, gap)

WordCounts == {0, 1, 24, 25, 26}
Leads == {<<>>, <<" ">>}
Gaps == {<<" ">>, <<" ", "\n">>}
Endings == {<<>>, <<".">>, <<"!">>, <<"?">>}
Rests == {<<>>, <<" ">>, <<" ", "x", "?", " ", "y", ".">>, <<" ", "x", "!">>,
          <<" ">> \o Phrase(1, 3, <<" ">>)}

Texts ==
    {lead \o Phrase(1, n, gap) \o ending \o rest :
        lead \in Leads, n \in WordCounts, gap \in Gaps, ending \in Endings, rest \in Rests}

SummaryIdle ==
    /\ text = <<>> /\ summary_text = <<>> /\ x_pc = "idle"
    /\ sum_contracts = <<>> /\ raising_texts = {} /\ summaries = <<>>
    /\ sum_idx = 0 /\ sum_pc = "idle"

InitExtractCall ==
    /\ text \in Texts /\ summary_text = <<>> /\ x_pc = "start"
    /\ sum_contracts = <<>> /\ raising_texts = {} /\ summaries = <<>>
    /\ sum_idx = 0 /\ sum_pc = "idle"

ExtractSummary ==
    /\ x_pc = "start"
    /\ summary_text' = extract_summary(text)
    /\ x_pc' = "returned"
    /\ UNCHANGED <<text, sum_contracts, raising_texts, summaries, sum_idx, sum_pc>>
    /\ UNCHANGED notSummary

\* summarize_contracts(contracts)
MaxSummaries == 3

SummaryIds == {"CONTRACT_001", "CONTRACT_002"}

\* ContractInput texts: stripped and not empty
ContractTexts == {<<"a", " ", "b", ".", " ", "c">>, Phrase(1, 26, <<" ">>)}

ContractInputs == [contract_id : SummaryIds, text : ContractTexts]

FallbackSummary ==
    <<"E", "r", "r", "o", "r", " ", "p", "r", "o", "c", "e", "s", "s", "i", "n",
      "g", " ", "c", "o", "n", "t", "r", "a", "c", "t", " ", "-", " ", "u", "n",
      "a", "b", "l", "e", " ", "t", "o", " ", "g", "e", "n", "e", "r", "a", "t",
      "e", " ", "s", "u", "m", "m", "a", "r", "y">>

InitSummarizeCall ==
    /\ text = <<>> /\ summary_text = <<>> /\ x_pc = "idle"
    /\ sum_contracts \in SeqsUpTo(ContractInputs, MaxSummaries)
    /\ raising_texts \in SUBSET ContractTexts
    /\ summaries = <<>> /\ sum_idx = 0 /\ sum_pc = "loop"

\* the loop body that gives up the batch when a contract fails
summarize_step_abort(out, contract, raising) ==
    IF contract.text \in raising THEN <<>>
    ELSE Append(out, [contract_id |-> contract.contract_id,
                      summary |-> extract_summary(contract.text)])

\* lines 73-90: the summary of one contract is appended, or the fallback
\* summary when the extraction raises
summarize_step(out, contract, raising) ==
    IF contract.text \in raising
    THEN Append(out, [contract_id |-> contract.contract_id, summary |-> FallbackSummary])
    ELSE Append(out, [contract_id |-> contract.contract_id,
                      summary |-> extract_summary(contract.text)])

\* one iteration of "for contract in contracts"
SummarizeIteration ==
    /\ sum_pc = "loop"
    /\ sum_idx < Len(sum_contracts)
    /\ summaries' = summarize_step(summaries, sum_contracts[sum_idx + 1], raising_texts)
    /\ sum_idx' = sum_idx + 1
    /\ UNCHANGED <<text, summary_text, x_pc, sum_contracts, raising_texts, sum_pc>>
    /\ UNCHANGED notSummary

\* line 95: return summaries
SummarizeReturn ==
    /\ sum_pc = "loop"
    /\ sum_idx = Len(sum_contracts)
    /\ sum_pc' = "returned"
    /\ UNCHANGED <<text, summary_text, x_pc, sum_contracts, raising_texts, summaries,
                   sum_idx>>
    /\ UNCHANGED notSummary

\* ------------------------------------------------------------------------
\* Specifications

vars == <<batchVars, contractVars, expiryVars, today, serviceVars, rateVars, mainVars,
          summaryVars>>

InitBatch ==
    InitBatchRun /\ ContractsIdle /\ ExpiryIdle /\ ServiceIdle /\ RateIdle /\ MainIdle /\ SummaryIdle /\ today = <<2024, 2, 15>>

NextBatch == ApplyBatchUpdates \/ ApplyUpdateToUser \/ FindUserById

SpecBatch == InitBatch /\ [][NextBatch]_vars

InitContracts ==
    BatchIdle /\ InitContractsRun /\ ExpiryIdle /\ ServiceIdle /\ RateIdle /\ MainIdle /\ SummaryIdle /\ today \in Todays

NextContracts == UpdateContractStatuses \/ ContractIteration \/ ContractsReturn

SpecContracts == InitContracts /\ [][NextContracts]_vars

InitExpiry ==
    BatchIdle /\ ContractsIdle /\ InitExpiryCall /\ ServiceIdle /\ RateIdle /\ MainIdle /\ SummaryIdle /\ today \in ExpiryTodays

NextExpiry == IsExpiringSoon

SpecExpiry == InitExpiry /\ [][NextExpiry]_vars

\* UserService calls made one at a time on a store that starts empty
InitService ==
    BatchIdle /\ ContractsIdle /\ ExpiryIdle /\ InitServiceEmpty /\ RateIdle /\ MainIdle /\ SummaryIdle /\ today = <<2024, 2, 15>>

NextService ==
    \/ Tick
    \/ \E t \in {"t1"} :
        \/ StartCreateUser(t) \/ CreateUserValidate(t) \/ CreateUserWrite(t)
        \/ StartGetUser(t) \/ GetUser(t)
        \/ StartUpdateUser(t) \/ UpdateUserExists(t) \/ UpdateUserValidate(t)
        \/ UpdateUserWrite(t)
        \/ StartDeleteUser(t) \/ DeleteUserExists(t) \/ DeleteUserWrite(t)

SpecService == InitService /\ [][NextService]_vars

\* two threads make one call each on a stored list of users, at once
InitRace ==
    /\ BatchIdle /\ ContractsIdle /\ ExpiryIdle /\ RateIdle /\ MainIdle /\ SummaryIdle
    /\ today = <<2024, 2, 15>>
    /\ InitServiceStored

CallCreateUser(t) == t_pc[t] = "idle" /\ StartCreateUser(t)

CallUpdateUser(t) == t_pc[t] = "idle" /\ StartUpdateUser(t)

CallDeleteUser(t) == t_pc[t] = "idle" /\ StartDeleteUser(t)

CallGetUsers(t) == t_pc[t] = "idle" /\ StartGetUsers(t)

NextRace ==
    \E t \in ServiceThreads :
        \/ CallCreateUser(t) \/ CreateUserValidate(t) \/ CreateUserWrite(t)
        \/ CallUpdateUser(t) \/ UpdateUserExists(t) \/ UpdateUserValidate(t)
        \/ UpdateUserWrite(t)
        \/ CallDeleteUser(t) \/ DeleteUserExists(t) \/ DeleteUserWrite(t)

SpecRace == InitRace /\ [][NextRace]_vars

\* one thread reads a page while the other creates or deletes a user
NextSnapshot ==
    \/ CallGetUsers("t1") \/ GetUsersPage("t1") \/ GetUsersTotal("t1")
    \/ CallCreateUser("t2") \/ CreateUserValidate("t2") \/ CreateUserWrite("t2")
    \/ CallDeleteUser("t2") \/ DeleteUserExists("t2") \/ DeleteUserWrite("t2")

SpecSnapshot == InitRace /\ [][NextSnapshot]_vars

\* get_users and search_users called one at a time on a stored list of users
InitQuery ==
    BatchIdle /\ ContractsIdle /\ ExpiryIdle /\ InitServiceStored /\ RateIdle /\ MainIdle /\ SummaryIdle /\ today = <<2024, 2, 15>>

NextQuery ==
    \E t \in {"t1"} :
        \/ StartGetUsers(t) \/ GetUsersPage(t) \/ GetUsersTotal(t)
        \/ StartSearchUsers(t) \/ SearchUsers(t)

SpecQuery == InitQuery /\ [][NextQuery]_vars

\* requests of one client checked against the rate limit, next to a second
\* client that has sent one request or none
InitRate ==
    /\ BatchIdle /\ ContractsIdle /\ ExpiryIdle /\ ServiceIdle /\ MainIdle
    /\ SummaryIdle /\ today = <<2024, 2, 15>>
    /\ current_time = 0
    /\ rate_resp = NoRateResp
    /\ rate_status = NoRateStatus
    /\ \E n \in {0, 1} :
        /\ rate_limit_store = [ip \in ClientIps |->
                                  IF ip = "10.0.0.2" /\ n = 1 THEN <<0>> ELSE <<>>]
        /\ admitted = [ip \in ClientIps |-> [ts \in RequestTimes |->
                          IF ip = "10.0.0.2" /\ ts = 0 THEN n ELSE 0]]

NextRate == CheckRateLimit("10.0.0.1") \/ AdvanceTime

SpecRate == InitRate /\ [][NextRate]_vars

\* a client close to its quota, and a second client that only asks for its
\* status
InitQuota ==
    /\ BatchIdle /\ ContractsIdle /\ ExpiryIdle /\ ServiceIdle /\ MainIdle
    /\ SummaryIdle /\ today = <<2024, 2, 15>>
    /\ current_time = 0
    /\ rate_resp = NoRateResp
    /\ rate_status = NoRateStatus
    /\ \E n \in {98, 99}, k \in {0, 1} :
        /\ rate_limit_store = [ip \in ClientIps |->
                                  IF ip = "10.0.0.1" THEN [i \in 1..n |-> 0]
                                  ELSE [i \in 1..k |-> 0]]
        /\ admitted = [ip \in ClientIps |-> [ts \in RequestTimes |->
                          IF ts # 0 THEN 0 ELSE IF ip = "10.0.0.1" THEN n ELSE k]]

NextQuota ==
    \/ CheckRateLimit("10.0.0.1")
    \/ \E ip \in ClientIps : GetRateLimitStatus(ip)
    \/ AdvanceTime

SpecQuota == InitQuota /\ [][NextQuota]_vars

\* creates, deletes and reads running concurrently on a store that starts
\* empty: threads calling UserService, or requests to the app of main.py
InitIds ==
    /\ BatchIdle /\ ContractsIdle /\ ExpiryIdle /\ RateIdle /\ SummaryIdle /\ today = <<2024, 2, 15>>
    /\ \/ InitServiceEmpty /\ MainIdle
       \/ ServiceIdle /\ InitMainEmpty

NextIds ==
    \/ \E t \in ServiceThreads :
        \/ StartCreateUser(t) \/ CreateUserValidate(t) \/ CreateUserWrite(t)
        \/ StartGetUser(t) \/ GetUser(t)
        \/ StartDeleteUser(t) \/ DeleteUserExists(t) \/ DeleteUserWrite(t)
    \/ \E r \in MainRequests :
        \/ PostUsers(r) \/ PostUsersLock(r) \/ PostUsersIdLock(r) \/ PostUsersAssignId(r)
        \/ PostUsersFileLock(r) \/ PostUsersWrite(r) \/ PostUsersWriteFails(r)
        \/ GetUserById(r) \/ GetUserByIdLock(r) \/ GetUserByIdFind(r)
        \/ DeleteUserById(r) \/ DeleteUserByIdLock(r) \/ DeleteUserByIdRemove(r)
        \/ DeleteUserByIdFileLock(r) \/ DeleteUserByIdWrite(r)
        \/ DeleteUserByIdWriteFails(r)

SpecIds == InitIds /\ [][NextIds]_vars

\* the five /users handlers of main.py running concurrently
InitMain ==
    /\ BatchIdle /\ ContractsIdle /\ ExpiryIdle /\ ServiceIdle /\ RateIdle
    /\ SummaryIdle /\ today = <<2024, 2, 15>>
    /\ InitMainEmpty

MainStep(r) ==
    \/ PostUsersLock(r) \/ PostUsersIdLock(r) \/ PostUsersAssignId(r)
    \/ PostUsersFileLock(r) \/ PostUsersWrite(r) \/ PostUsersWriteFails(r)
    \/ GetUsersLock(r) \/ GetUsersCopy(r)
    \/ GetUserByIdLock(r) \/ GetUserByIdFind(r)
    \/ PatchUserLock(r) \/ PatchUserApply(r) \/ PatchUserFileLock(r)
    \/ PatchUserWrite(r) \/ PatchUserWriteFails(r)
    \/ DeleteUserByIdLock(r) \/ DeleteUserByIdRemove(r) \/ DeleteUserByIdFileLock(r)
    \/ DeleteUserByIdWrite(r) \/ DeleteUserByIdWriteFails(r)

NextMain ==
    \E r \in MainRequests :
        \/ PostUsers(r) \/ GetUsers(r) \/ GetUserById(r) \/ PatchUser(r)
        \/ DeleteUserById(r)
        \/ MainStep(r)

SpecMain == InitMain /\ [][NextMain]_vars

\* two requests, one per client connection, handled at once
OnePostUsers(r) == m_pc[r] = "idle" /\ PostUsers(r)

OneGetUsers(r) == m_pc[r] = "idle" /\ GetUsers(r)

OneGetUserById(r) == m_pc[r] = "idle" /\ GetUserById(r)

OnePatchUser(r) == m_pc[r] = "idle" /\ PatchUser(r)

OneDeleteUserById(r) == m_pc[r] = "idle" /\ DeleteUserById(r)

NextHandlers ==
    \E r \in MainRequests :
        \/ OnePostUsers(r) \/ OneGetUsers(r) \/ OneGetUserById(r) \/ OnePatchUser(r)
        \/ OneDeleteUserById(r)
        \/ MainStep(r)

\* the event loop runs every handler that can go on, and an asyncio.Lock
\* wakes its waiters in the order they came
SpecHandlers ==
    InitMain /\ [][NextHandlers]_vars /\ \A r \in MainRequests : SF_vars(MainStep(r))

\* extract_summary on a text
InitExtract ==
    /\ BatchIdle /\ ContractsIdle /\ ExpiryIdle /\ ServiceIdle /\ RateIdle /\ MainIdle
    /\ today = <<2024, 2, 15>>
    /\ InitExtractCall

NextExtract == ExtractSummary

SpecExtract == InitExtract /\ [][NextExtract]_vars

\* summarize_contracts on a list of contracts
InitSummarize ==
    /\ BatchIdle /\ ContractsIdle /\ ExpiryIdle /\ ServiceIdle /\ RateIdle /\ MainIdle
    /\ today = <<2024, 2, 15>>
    /\ InitSummarizeCall

NextSummarize == SummarizeIteration \/ SummarizeReturn

SpecSummarize == InitSummarize /\ [][NextSummarize]_vars

\* ------------------------------------------------------------------------
\* Properties of the user updater

InputAddrs == 1..Len(given.heap)
IdOf(a) == given.heap[a]["user_id"]
\* positions in the update list of the updates that carry the id of record a
UpdatesFor(a) == {j \in 1..Len(given.updates) : IdOf(given.updates[j]) = IdOf(a)}
\* ... and that contain field f
UpdatesWith(a, f) == {j \in UpdatesFor(a) : f \in DOMAIN given.heap[given.updates[j]]}
Last(S) == CHOOSE j \in S : \A k \in S : k <= j
Ids(h, refs) == [k \in 1..Len(refs) |-> h[refs[k]]["user_id"]]
Values(h, refs) == [k \in 1..Len(refs) |-> h[refs[k]]]

\* C1: apply_batch_updates returns a list as long as the user list whose
\* user_id sequence is the user_id sequence of the user list as the caller
\* passed it.
C1_OrderPreserved ==
    pc = "returned" =>
        /\ Len(updated_users) = Len(given.users)
        /\ Ids(heap, updated_users) = Ids(given.heap, given.users)

\* C1 witness: two users with different ids, updated in the opposite order.
C1_Witness ==
    /\ pc = "returned"
    /\ Ids(given.heap, given.users) = <<"U1", "U2">>
    /\ Ids(given.heap, given.updates) = <<"U2", "U1">>

\* C2: the record returned by apply_update_to_user has the update's value
\* for every field of the update but user_id, the user's value for every
\* field of the user the update does not contain, and no other field.
C2_FieldMerge ==
    pc = "applied" =>
        LET r == heap[ret]
            u == given.heap[arg_user]
            p == given.heap[arg_update]
        IN  /\ \A k \in DOMAIN p \ {"user_id"} : k \in DOMAIN r /\ r[k] = p[k]
            /\ \A k \in DOMAIN u \ DOMAIN p : k \in DOMAIN r /\ r[k] = u[k]
            /\ DOMAIN r \subseteq DOMAIN u \cup DOMAIN p

\* C2 witness: an update that overwrites name and adds role to a user
\* without a role.
C2_Witness ==
    /\ pc = "applied"
    /\ "role" \notin DOMAIN given.heap[arg_user]
    /\ DOMAIN given.heap[arg_update] = {"user_id", "name", "role"}
    /\ heap[ret]["role"] = "b"

\* C3: for every record and field, the output value is the value of the
\* last update of the record's id that contains the field, or the record's
\* own value (or absence) when no such update contains it.
C3_LastUpdateWins ==
    pc = "returned" =>
        /\ Len(updated_users) = Len(given.users)
        /\ \A k \in 1..Len(given.users) : \A f \in AllFields :
            LET a == given.users[k]
                r == heap[updated_users[k]]
                S == UpdatesWith(a, f)
            IN  IF S = {}
                THEN /\ f \in DOMAIN r <=> f \in DOMAIN given.heap[a]
                     /\ f \in DOMAIN r => r[f] = given.heap[a][f]
                ELSE /\ f \in DOMAIN r
                     /\ r[f] = given.heap[given.updates[Last(S)]][f]

\* C3 witness: two updates of the same user set name to different values.
C3_Witness ==
    /\ pc = "returned"
    /\ Len(given.users) >= 1
    /\ Len(given.updates) = 2
    /\ Ids(given.heap, given.updates) = <<IdOf(given.users[1]), IdOf(given.users[1])>>
    /\ "name" \in DOMAIN given.heap[given.updates[1]]
    /\ "name" \in DOMAIN given.heap[given.updates[2]]
    /\ given.heap[given.updates[1]]["name"] # given.heap[given.updates[2]]["name"]

\* the update list without the updates whose user_id is the id of no user
MatchedUpdates ==
    SelectSeq(given.updates,
              LAMBDA u : \E k \in 1..Len(given.users) : IdOf(given.users[k]) = IdOf(u))

\* C4: the records returned for (R, U) are the records returned for (R, U')
\* where U' is U without the updates that match no record.
C4_UnmatchedUpdateNoEffect ==
    pc = "returned" =>
        LET r == apply_batch_updates(given.heap, given.users, MatchedUpdates)
        IN  Values(heap, updated_users) = Values(r.heap, r.out)

\* C4 witness: a run with an unmatched update that carries data, next to a
\* matched one.
C4_Witness ==
    /\ pc = "returned"
    /\ Len(MatchedUpdates) = 1
    /\ Len(given.updates) = 2
    /\ \E j \in 1..2 :
        /\ \A k \in 1..Len(given.users) : IdOf(given.users[k]) # IdOf(given.updates[j])
        /\ "name" \in DOMAIN given.heap[given.updates[j]]
    /\ Len(given.users) >= 1

\* C5: a record whose user_id is in no update is at the same position of the
\* output with the fields and values it had.
C5_UntouchedRecordKept ==
    pc = "returned" =>
        \A k \in 1..Len(given.users) :
            UpdatesFor(given.users[k]) = {} =>
                /\ k <= Len(updated_users)
                /\ heap[updated_users[k]] = given.heap[given.users[k]]

\* C5 witness: the second of two records has no update, the first has one.
C5_Witness ==
    /\ pc = "returned"
    /\ Len(given.users) = 2
    /\ UpdatesFor(given.users[1]) # {}
    /\ UpdatesFor(given.users[2]) = {}
    /\ Len(given.updates) = 2

\* C6: every output record of apply_batch_updates and the record returned by
\* apply_update_to_user carry the user_id of the input record, not that of
\* the update.
C6_KeyNeverCopied ==
    /\ pc = "applied" => heap[ret]["user_id"] = IdOf(arg_user)
    /\ pc = "returned" =>
          \A k \in 1..Len(updated_users) :
              k <= Len(given.users) /\ heap[updated_users[k]]["user_id"] = IdOf(given.users[k])

\* C6 witness: apply_update_to_user called with an update of another id.
C6_Witness ==
    /\ pc = "applied"
    /\ IdOf(arg_update) # IdOf(arg_user)
    /\ DOMAIN given.heap[arg_update] # {"user_id"}

\* C7: the caller's records, updates and lists are as they were before the
\* call, and a record that received an update is returned as a new object.
C7_InputsNotMutated ==
    /\ users = given.users
    /\ updates = given.updates
    /\ \A a \in InputAddrs : heap[a] = given.heap[a]
    /\ pc = "applied" => ret \notin InputAddrs
    /\ pc = "returned" =>
          \A k \in 1..Len(given.users) :
              UpdatesFor(given.users[k]) # {} =>
                  k <= Len(updated_users) /\ updated_users[k] \notin InputAddrs

\* C7 witness: a batch that changed a field of a record.
C7_Witness ==
    /\ pc = "returned"
    /\ \E k \in 1..Len(given.users) :
        /\ UpdatesFor(given.users[k]) # {}
        /\ heap[updated_users[k]] # given.heap[given.users[k]]

\* C13: find_user_by_id returns the first record in list order that has the
\* user_id asked for, also when several records share it, and None when no
\* record has it.
C13_FirstMatchOrNone ==
    pc = "found" =>
        LET hits == {k \in 1..Len(given.users) : IdOf(given.users[k]) = arg_id}
        IN  IF hits = {} THEN ret = 0
            ELSE ret = given.users[CHOOSE k \in hits : \A j \in hits : k <= j]

\* C13 witness: two records share the id asked for and the first is returned.
C13_Witness ==
    /\ pc = "found"
    /\ Len(given.users) = 2
    /\ IdOf(given.users[1]) = arg_id
    /\ IdOf(given.users[2]) = arg_id
    /\ ret = given.users[1]

\* ------------------------------------------------------------------------
\* Properties of the contract updater

\* The calendar day after a date, and the dates today .. today + n, counted
\* on the calendar one day at a time.
NextDay(d) ==
    IF d[3] < DaysInMonth(d[1], d[2]) THEN <<d[1], d[2], d[3] + 1>>
    ELSE IF d[2] < 12 THEN <<d[1], d[2] + 1, 1>>
    ELSE <<d[1] + 1, 1, 1>>

RECURSIVE DaysFrom(_, _)
DaysFrom(d, n) == IF n = 0 THEN {d} ELSE {d} \cup DaysFrom(NextDay(d), n - 1)

RECURSIVE PlusDays(_, _)
PlusDays(d, n) == IF n = 0 THEN d ELSE PlusDays(NextDay(d), n - 1)

ContractAddrs == 1..Len(cgiven.heap)
\* the record satisfies the status guard and the date predicate
Qualifies(a) ==
    /\ cgiven.heap[a]["status"] = "active"
    /\ cgiven.heap[a]["expiry_date"] \in DaysFrom(today, DefaultThreshold)

\* C8: update_contract_statuses never writes through the input records: the
\* caller's records keep the status they had, and a record that qualifies
\* is returned as a copy with the status rewritten.
C8_NoWriteThrough ==
    /\ \A a \in ContractAddrs : contract_heap[a] = cgiven.heap[a]
    /\ cpc = "returned" =>
          \A k \in 1..Len(cgiven.contracts) :
              LET a == cgiven.contracts[k]
              IN  IF Qualifies(a)
                  THEN /\ updated_contracts[k] \notin ContractAddrs
                       /\ contract_heap[updated_contracts[k]]["status"] = "expiring_soon"
                  ELSE updated_contracts[k] = a

\* C9: is_expiring_soon(d, threshold) is true exactly for the dates
\* today, today + 1, ..., today + threshold of the calendar.
C9_WindowInclusive ==
    e_pc = "returned" => (e_result <=> e_date \in DaysFrom(today, e_threshold))

\* C9 witness: the boundary day today + 30 across the end of a year, found
\* expiring soon.
C9_Witness ==
    /\ e_pc = "returned"
    /\ today = <<2025, 12, 20>>
    /\ e_threshold = DefaultThreshold
    /\ e_date = PlusDays(today, DefaultThreshold)
    /\ e_date = <<2026, 1, 19>>
    /\ e_result

\* C10: in the returned list a record is newly 'expiring_soon' only if it
\* was 'active' with a date within 0..30 days of today; a record that was
\* not 'active' keeps its status, and an 'active' record outside the window
\* stays 'active'.
C10_StatusGuard ==
    cpc = "returned" =>
        /\ Len(updated_contracts) = Len(cgiven.contracts)
        /\ \A k \in 1..Len(cgiven.contracts) :
            LET was == cgiven.heap[cgiven.contracts[k]]
                now == contract_heap[updated_contracts[k]]
            IN  /\ (now["status"] = "expiring_soon" /\ was["status"] # "expiring_soon")
                       => Qualifies(cgiven.contracts[k])
                /\ was["status"] # "active" => now["status"] = was["status"]
                /\ (was["status"] = "active" /\ ~Qualifies(cgiven.contracts[k]))
                       => now["status"] = "active"

\* C10 witness: a returned batch with a rewritten record and a draft record
\* whose date is within the window.
C10_Witness ==
    /\ cpc = "returned"
    /\ Len(cgiven.contracts) = 2
    /\ Qualifies(cgiven.contracts[1])
    /\ contract_heap[updated_contracts[1]]["status"] = "expiring_soon"
    /\ cgiven.heap[cgiven.contracts[2]]["status"] = "draft"
    /\ cgiven.heap[cgiven.contracts[2]]["expiry_date"] \in DaysFrom(today, DefaultThreshold)

\* C11: update_contract_statuses returns as many records as it was given,
\* with the contract_id sequence of the input and, in every record, the
\* input's value for every field but status.
C11_StructurePreserved ==
    cpc = "returned" =>
        /\ Len(updated_contracts) = Len(cgiven.contracts)
        /\ \A k \in 1..Len(cgiven.contracts) :
            LET was == cgiven.heap[cgiven.contracts[k]]
                now == contract_heap[updated_contracts[k]]
            IN  /\ DOMAIN now = DOMAIN was
                /\ \A f \in DOMAIN was \ {"status"} : now[f] = was[f]

\* C11 witness: a returned batch of two records, the first one rewritten.
C11_Witness ==
    /\ cpc = "returned"
    /\ Len(cgiven.contracts) = 2
    /\ Qualifies(cgiven.contracts[1])
    /\ contract_heap[updated_contracts[1]]["status"] = "expiring_soon"
    /\ ~Qualifies(cgiven.contracts[2])

\* C12: when a malformed expiry_date makes update_contract_statuses raise,
\* no list is returned and no record of the input list, the records before
\* the offending one included, has had its status changed.
C12_NoPartialMerge ==
    cpc = "raised" =>
        \A a \in ContractAddrs : contract_heap[a]["status"] = cgiven.heap[a]["status"]

\* ------------------------------------------------------------------------
\* user_management_api: UserService calls made one at a time

StoredWith(store, id) == {k \in 1..Len(store.users) : store.users[k].id = id}
HeldBy(store, email) == {store.users[k].id : k \in {j \in 1..Len(store.users) : store.users[j].email = email}}
Finished(t, op) == t_pc[t] = "done" /\ t_call[t].op = op

\* C14: no two stored users share an email; create_user with an email
\* that a stored user holds, and update_user of a stored user to an email
\* that a different user holds, raise UserAlreadyExistsError (409) and leave
\* the users and the next id as they were; update_user to the user's own
\* current email is accepted.
C14_EmailUnique ==
    /\ \A i, j \in 1..Len(db_users) : i # j => db_users[i].email # db_users[j].email
    /\ \A t \in ServiceThreads :
        LET c == t_call[t]
            pre == t_pre[t]
        IN  /\ (Finished(t, "create_user") /\ HeldBy(pre, c.data.email) # {})
                => (t_resp[t].status = 409 /\ Store = pre)
            /\ (/\ Finished(t, "update_user")
                /\ StoredWith(pre, c.user_id) # {}
                /\ c.data.email # None)
                => IF HeldBy(pre, c.data.email[1]) \ {c.user_id} # {}
                   THEN t_resp[t].status = 409 /\ Store = pre
                   ELSE t_resp[t].status = 200

C14_Witness ==
    /\ Finished("t1", "update_user") /\ t_resp["t1"].status = 409
    /\ Len(db_users) = 2

\* C16: get_user, update_user and delete_user with an id that is not in
\* the store raise UserNotFoundError (404) and leave the users, their values
\* and the next id as they were.
C16_NotFound ==
    \A t \in ServiceThreads :
        (/\ t_pc[t] = "done"
         /\ t_call[t].op \in {"get_user", "update_user", "delete_user"}
         /\ StoredWith(t_pre[t], t_call[t].user_id) = {})
            => (t_resp[t].status = 404 /\ Store = t_pre[t])

C16_Witness ==
    /\ Finished("t1", "update_user") /\ t_resp["t1"].status = 404
    /\ t_call["t1"].user_id \in deleted_ids
    /\ db_users # <<>>

\* C17: update_user on a stored user sets exactly the fields of name, email
\* and age that the update provides; the other fields, the id and created_at
\* keep their values, updated_at does not decrease, and no other user
\* changes.
C17_PartialUpdate ==
    \A t \in ServiceThreads :
        (Finished(t, "update_user") /\ t_resp[t].status = 200)
            => LET pre == t_pre[t].users
                   d == t_call[t].data
               IN  /\ Len(db_users) = Len(pre)
                   /\ \A k \in 1..Len(pre) :
                       IF pre[k].id # t_call[t].user_id THEN db_users[k] = pre[k]
                       ELSE /\ db_users[k].id = pre[k].id
                            /\ db_users[k].created_at = pre[k].created_at
                            /\ db_users[k].updated_at >= pre[k].updated_at
                            /\ db_users[k].name = IF d.name = None THEN pre[k].name ELSE d.name[1]
                            /\ db_users[k].email = IF d.email = None THEN pre[k].email ELSE d.email[1]
                            /\ db_users[k].age = IF d.age = None THEN pre[k].age ELSE d.age
                            /\ t_resp[t].users = <<db_users[k]>>

C17_Witness ==
    /\ Finished("t1", "update_user") /\ t_resp["t1"].status = 200
    /\ t_call["t1"].data.name # None /\ t_call["t1"].data.age = None
    /\ Len(db_users) = 2
    /\ \E k \in 1..2 : /\ db_users[k].id = t_call["t1"].user_id
                       /\ db_users[k].age = Some(31)
                       /\ db_users[k].updated_at > db_users[k].created_at

\* ------------------------------------------------------------------------
\* user_management_api: get_users and search_users

\* the elements of seq at the 0-based positions from .. from + count - 1
Positions(seq, from, count) ==
    LET last == IF from + count < Len(seq) THEN from + count ELSE Len(seq)
    IN  [i \in 1..(IF last > from THEN last - from ELSE 0) |-> seq[from + i]]

\* what get_users(skip, limit) is to return on the stored users
ExpectedUserList(stored, skip, limit) ==
    LET sk == IF skip < 0 THEN 0 ELSE skip
        lim == IF limit \in 1..1000 THEN limit ELSE 100
    IN  [status |-> 200, users |-> Positions(stored, sk, lim), total |-> Len(stored),
         page |-> (sk \div lim) + 1, size |-> lim,
         has_next |-> (\E k \in 1..Len(stored) : k > sk + lim), flag |-> FALSE]

\* C18: get_users(skip, limit), with skip < 0 replaced by 0 and a limit
\* outside 1..1000 by 100, returns the stored users at positions
\* skip .. skip+limit-1 in creation order, total = number of stored users,
\* page = skip div limit + 1, size = limit, and has_next exactly when a
\* stored user lies beyond the page.
C18_Pagination ==
    \A t \in ServiceThreads :
        Finished(t, "get_users")
            => t_resp[t] = ExpectedUserList(t_pre[t].users, t_call[t].skip, t_call[t].limit)

C18_Witness ==
    /\ Finished("t1", "get_users")
    /\ t_call["t1"].skip = 1 /\ t_call["t1"].limit = 2
    /\ Len(db_users) = 3
    /\ Len(t_resp["t1"].users) = 2 /\ ~t_resp["t1"].has_next

IsSubstring(sub, str) ==
    \E pre, post \in SeqsUpTo({str[i] : i \in 1..Len(str)}, Len(str)) : pre \o sub \o post = str

\* C19: search_users(q, skip, limit) with q empty, blank or shorter than 2
\* after stripping returns what get_users(skip, limit) returns; otherwise it
\* returns, in store order, users whose name or email contains the stripped
\* lower-cased q without regard to case, with total the number of all such
\* users and has_next exactly when skip + limit < total.
C19_SearchResult ==
    \A t \in ServiceThreads :
        Finished(t, "search_users")
            => LET c == t_call[t]
                   stored == t_pre[t].users
                   q == lower(strip(c.query))
                   hits == {k \in 1..Len(stored) :
                               \/ IsSubstring(q, lower(stored[k].name))
                               \/ IsSubstring(q, lower(stored[k].email))}
               IN  IF Len(strip(c.query)) < 2
                   THEN t_resp[t] = ExpectedUserList(stored, c.skip, c.limit)
                   ELSE /\ t_resp[t].status = 200
                        /\ t_resp[t].total = Cardinality(hits)
                        /\ t_resp[t].has_next = (c.skip + c.limit < t_resp[t].total)
                        /\ \E pos \in [1..Len(t_resp[t].users) -> hits] :
                            /\ \A i, j \in DOMAIN pos : i < j => pos[i] < pos[j]
                            /\ \A i \in DOMAIN pos : t_resp[t].users[i] = stored[pos[i]]

\* ------------------------------------------------------------------------
\* user_management_api: rate limiting

\* C20: a request of an IP is admitted only when fewer than 100 earlier
\* admitted requests of that IP are less than 60 seconds old, the request
\* after 100 admitted within 60 seconds is rejected with 429, and the store
\* never holds more than 100 in-window timestamps of one IP.
C20_RateLimit ==
    /\ rate_resp.status = 200 => rate_resp.prior < 100
    /\ rate_resp.status # 0 /\ rate_resp.prior >= 100 => rate_resp.status = 429
    /\ \A ip \in ClientIps :
        Cardinality({k \in 1..Len(rate_limit_store[ip]) :
                        current_time - rate_limit_store[ip][k] < 60}) <= 100

C20_Witness ==
    /\ rate_resp = [ip |-> "10.0.0.1", status |-> 429, prior |-> 100]
    /\ current_time = 60
    /\ admitted["10.0.0.1"][0] > 0 /\ admitted["10.0.0.1"][59] > 0
    /\ rate_limit_store["10.0.0.2"] = <<0>>

\* ------------------------------------------------------------------------
\* user_management_api: user ids

\* the ids given out are 1, 2, 3, ..., stored ids are pairwise different and
\* no deleted id is stored
IdsInOrder ==
    /\ \A k \in 1..Len(created_ids) : created_ids[k] = k
    /\ \A k \in 1..Len(m_created) : m_created[k] = k
    /\ \A i, j \in 1..Len(db_users) : i # j => db_users[i].id # db_users[j].id
    /\ \A i, j \in 1..Len(users_db) : i # j => users_db[i].id # users_db[j].id
    /\ \A k \in 1..Len(db_users) : db_users[k].id \notin deleted_ids
    /\ \A k \in 1..Len(users_db) : users_db[k].id \notin m_deleted
    /\ \A t \in ServiceThreads :
        (Finished(t, "create_user") /\ t_resp[t].status = 200)
            => \E k \in 1..Len(created_ids) : t_resp[t].users[1].id = k

\* a read of an id made after its delete has succeeded finds nothing
GetAfterDeleteFails ==
    /\ \A t \in ServiceThreads :
        (t_pc[t] = "get_user:33" /\ t_pc'[t] = "done" /\ t_call[t].user_id \in deleted_ids)
            => t_resp'[t].status = 404
    /\ \A r \in MainRequests :
        (m_pc[r] = "get_user:204" /\ m_pc'[r] = "done" /\ m_req[r].user_id \in m_deleted)
            => m_resp'[r].status = 404

MirrorMatches ==
    \/ output_file = Some(users_db)
    \/ output_file = None /\ users_db = <<>> /\ m_created = <<>>

\* a POST, PATCH or DELETE that answers 200 has written users_db to the file
SuccessfulWriteMirrors ==
    \A r \in MainRequests :
        (/\ m_req[r].method \in {"POST", "PATCH", "DELETE"}
         /\ m_pc[r] # "done" /\ m_pc'[r] = "done" /\ m_resp'[r].status = 200)
            => output_file' = Some(users_db')

\* C21: after every successful POST /users, PATCH /users/{id} and
\* DELETE /users/{id} the user list in output_users.json equals users_db,
\* and under any interleaving of handlers the file equals users_db whenever
\* no handler holds users_lock.
C21_MirrorFollowsStore ==
    [](users_lock = "" => MirrorMatches) /\ [][SuccessfulWriteMirrors]_vars

\* ------------------------------------------------------------------------
\* contract_summarization_api: extract_summary

\* the positions where a whitespace-separated word starts
WordStarts(str) ==
    {i \in 1..Len(str) : str[i] \notin Whitespace /\ (i = 1 \/ str[i - 1] \in Whitespace)}

WordCount(str) == Cardinality(WordStarts(str))

NthWord(str, k) ==
    LET i == CHOOSE i \in WordStarts(str) :
                 Cardinality({j \in WordStarts(str) : j < i}) = k - 1
        last == CHOOSE j \in i..Len(str) :
                    /\ \A m \in i..j : str[m] \notin Whitespace
                    /\ (j = Len(str) \/ str[j + 1] \in Whitespace)
    IN  SubSeq(str, i, last)

RECURSIVE FirstWords(_, _)
FirstWords(str, n) ==
    IF n = 1 THEN NthWord(str, 1)
    ELSE FirstWords(str, n - 1) \o <<" ">> \o NthWord(str, n)

Trimmed(str) ==
    LET solid == {i \in 1..Len(str) : str[i] \notin Whitespace}
    IN  IF solid = {} THEN <<>>
        ELSE SubSeq(str, CHOOSE i \in solid : \A j \in solid : i <= j,
                         CHOOSE i \in solid : \A j \in solid : i >= j)

SentenceEnds(str) == {i \in 1..Len(str) : str[i] \in {".", "!", "?"}}

FirstSentence(str) ==
    SubSeq(str, 1, CHOOSE i \in SentenceEnds(str) : \A j \in SentenceEnds(str) : i <= j)

Cut(str) == FirstWords(str, 25) \o <<".", ".", ".">>

\* the summary as stated: the sentence prefix itself
StatedSummary(str) ==
    IF SentenceEnds(str) # {}
    THEN IF WordCount(FirstSentence(str)) <= 25 THEN FirstSentence(str)
         ELSE Cut(FirstSentence(str))
    ELSE IF WordCount(str) <= 25 THEN Trimmed(str) ELSE Cut(str)

\* the summary with the sentence prefix stripped of surrounding whitespace
StrippedSummary(str) ==
    IF SentenceEnds(str) # {}
    THEN IF WordCount(FirstSentence(str)) <= 25 THEN Trimmed(FirstSentence(str))
         ELSE Cut(FirstSentence(str))
    ELSE IF WordCount(str) <= 25 THEN Trimmed(str) ELSE Cut(str)

\* C22 as stated: extract_summary returns the prefix up to and including the
\* earliest '.', '!' or '?' when that prefix has at most 25 words, else the
\* first 25 words joined by single spaces and '...'; without a sentence
\* ending the stripped text or the first 25 words and '...'; never more than
\* 25 words.
C22_FirstSentenceOr25Words_stated ==
    x_pc = "returned" =>
        /\ summary_text = StatedSummary(text)
        /\ WordCount(summary_text) <= 25

\* C22: as above, where the sentence prefix is returned stripped of leading
\* and trailing whitespace.
C22_FirstSentenceOr25Words ==
    x_pc = "returned" =>
        /\ summary_text = StrippedSummary(text)
        /\ WordCount(summary_text) <= 25

C22_Witness ==
    /\ x_pc = "returned"
    /\ SentenceEnds(text) # {}
    /\ WordCount(FirstSentence(text)) = 25
    /\ text[1] \in Whitespace
    /\ summary_text = Trimmed(FirstSentence(text))
    /\ summary_text # FirstSentence(text)

\* ------------------------------------------------------------------------
\* contract_summarization_api: summarize_contracts

SummaryOf(contract) ==
    [contract_id |-> contract.contract_id,
     summary |-> IF contract.text \in raising_texts THEN FallbackSummary
                 ELSE StrippedSummary(contract.text)]

\* C23: summarize_contracts returns one summary per contract, in input order
\* and with the contract's id; a contract whose extraction raises gets the
\* fallback summary and the contracts around it get their normal summaries.
C23_OneSummaryPerContract ==
    /\ sum_pc \in {"loop", "returned"} =>
           /\ Len(summaries) = sum_idx
           /\ \A k \in 1..sum_idx : summaries[k] = SummaryOf(sum_contracts[k])
    /\ sum_pc = "returned" => Len(summaries) = Len(sum_contracts)

C23_Witness ==
    /\ sum_pc = "returned"
    /\ Len(sum_contracts) = 3
    /\ sum_contracts[2].text \in raising_texts
    /\ sum_contracts[1].text \notin raising_texts
    /\ sum_contracts[3].text \notin raising_texts
    /\ summaries[2].summary = FallbackSummary
    /\ summaries[1].summary = StrippedSummary(sum_contracts[1].text)
    /\ summaries[3].summary = StrippedSummary(sum_contracts[3].text)

\* ------------------------------------------------------------------------
\* user_management_api: concurrent calls of the service

\* C24: under any interleaving of concurrent create_user and update_user
\* calls, no two stored users have the same email.
C24_EmailUniqueConcurrent ==
    \A i \in 1..Len(db_users) : \A j \in (i + 1)..Len(db_users) :
        db_users[i].email # db_users[j].email

AbsentAtWrite(t) ==
    /\ t_pc[t] \in {"update_user:74", "delete_user:88"}
    /\ t_pc'[t] = "done"
    /\ \A k \in 1..Len(db_users) : db_users[k].id # t_call[t].user_id

\* C25: when the user targeted by update_user or delete_user is absent at
\* the moment of the database write, the call ends with UserNotFoundError
\* (404), never with InvalidUserDataError (422) or the value False.
C25_AbsentIsNotFound ==
    [][\A t \in ServiceThreads : AbsentAtWrite(t) => t_resp'[t].status = 404]_vars

\* C26: the page returned by get_users is a snapshot: total is the number of
\* users stored when the page was read, len(users) <= total, and has_next
\* holds exactly when a user lay beyond the page at that moment.
C26_PageIsSnapshot ==
    \A t \in ServiceThreads :
        Finished(t, "get_users") =>
            LET read == t_pre[t].users
                sk == IF t_call[t].skip < 0 THEN 0 ELSE t_call[t].skip
                lim == IF t_call[t].limit \in 1..1000 THEN t_call[t].limit ELSE 100
            IN  /\ t_resp[t].total = Len(read)
                /\ Len(t_resp[t].users) <= t_resp[t].total
                /\ t_resp[t].has_next <=> (\E k \in 1..Len(read) : k > sk + lim)

\* ------------------------------------------------------------------------
\* user_management_api: the locks of app/main.py

Running(r) == m_pc[r] \notin {"off", "idle", "done"}

\* id_lock and file_lock are held only inside users_lock, and never together
LockOrder ==
    /\ id_lock # "" => users_lock = id_lock
    /\ file_lock # "" => users_lock = file_lock
    /\ ~(id_lock # "" /\ file_lock # "")

\* a handler that is not running holds no lock
LocksReleased ==
    \A r \in MainRequests :
        ~Running(r) => (users_lock # r /\ id_lock # r /\ file_lock # r)

\* while a handler is running some handler can take a step
NoDeadlock ==
    (\E r \in MainRequests : Running(r)) => (\E r \in MainRequests : ENABLED MainStep(r))

\* C27: id_lock and file_lock are acquired only by the holder of users_lock
\* and never held together, every handler has released its locks when it
\* has returned or raised (404 and 500 included), no interleaving of the
\* handlers deadlocks, and every handler that starts completes.
C27_LocksOrderedAndReleased ==
    /\ [](LockOrder /\ LocksReleased /\ NoDeadlock)
    /\ \A r \in MainRequests : Running(r) ~> m_pc[r] = "done"

C27_Witness ==
    \E r1, r2 \in MainRequests :
        /\ m_pc[r1] = "done" /\ m_resp[r1].status = 500
        /\ m_req[r2].method = "DELETE"
        /\ users_lock = r2 /\ file_lock = r2

\* ------------------------------------------------------------------------
\* user_management_api: what consumes the quota

Occurrences(seq, ts) == Cardinality({k \in 1..Len(seq) : seq[k] = ts})

\* the in-window timestamps of every IP are its admitted requests
StoreIsAdmitted ==
    \A ip \in ClientIps : \A ts \in RequestTimes :
        current_time - ts < 60 => Occurrences(rate_limit_store[ip], ts) = admitted[ip][ts]

\* a timestamp is added only for a request that is admitted, and only to the
\* list of the IP that sent it
OnlyAdmittedAdds ==
    \A ip \in ClientIps : \A ts \in RequestTimes :
        Occurrences(rate_limit_store'[ip], ts) > Occurrences(rate_limit_store[ip], ts)
            => /\ rate_resp' = [ip |-> ip, status |-> 200, prior |-> AdmittedInWindow(ip)]
               /\ rate_status' = rate_status
               /\ ts = current_time
               /\ Occurrences(rate_limit_store'[ip], ts)
                      = Occurrences(rate_limit_store[ip], ts) + 1

\* the list of an IP changes only in a request of that IP
OwnEntriesOnly ==
    \A ip \in ClientIps :
        rate_limit_store'[ip] # rate_limit_store[ip]
            => \/ rate_status' = rate_status /\ rate_resp'.ip = ip
               \/ rate_resp' = rate_resp /\ rate_status'.ip = ip

\* C28: a 429 and a GET /rate-limit-status add no timestamp, requests of one
\* IP leave the entries of another alone, requests_in_window is the number
\* of the IP's admitted requests less than 60 seconds old, remaining_requests
\* is max(0, 100 - requests_in_window), and an IP is rejected only while 100
\* of its admitted requests are less than 60 seconds old, whatever was
\* rejected in between.
C28_OnlyAdmittedConsumeQuota ==
    /\ [](/\ StoreIsAdmitted
          /\ rate_status.ip # "" =>
                 /\ rate_status.requests_in_window = rate_status.counted
                 /\ rate_status.remaining_requests
                        = (IF rate_status.requests_in_window >= 100 THEN 0
                           ELSE 100 - rate_status.requests_in_window)
          /\ rate_resp.status = 429 => rate_resp.prior >= 100
          /\ rate_resp.status = 200 => rate_resp.prior < 100)
    /\ [][OnlyAdmittedAdds /\ OwnEntriesOnly]_vars

C28_Witness ==
    /\ current_time = 60
    /\ admitted["10.0.0.1"][0] = 99 /\ admitted["10.0.0.1"][59] = 1
    /\ rate_resp = [ip |-> "10.0.0.1", status |-> 200, prior |-> 1]
    /\ rate_status.ip = "10.0.0.1"
    /\ rate_status.requests_in_window = 100
    /\ rate_status.remaining_requests = 0
    /\ rate_limit_store["10.0.0.2"] = <<0>>

\* ------------------------------------------------------------------------
\* contract_updater.py: which expiry dates are parsed

\* the positions of the given list whose record is 'active' with an
\* expiry_date that strptime rejects
ActiveMalformed ==
    {k \in 1..Len(cgiven.contracts) :
        /\ cgiven.heap[cgiven.contracts[k]]["status"] = "active"
        /\ ~ValidDate(cgiven.heap[cgiven.contracts[k]]["expiry_date"])}

\* C29: update_contract_statuses raises the date-format error exactly when
\* some 'active' record has a malformed expiry_date, and then at the first
\* such record; a record that is not 'active' passes through unchanged and
\* without error even when its expiry_date is malformed.
C29_ParsedOnlyWhenActive ==
    /\ cpc = "raised" =>
           /\ ActiveMalformed # {}
           /\ idx \in ActiveMalformed
           /\ \A k \in ActiveMalformed : idx <= k
    /\ cpc = "returned" => ActiveMalformed = {}
    /\ cpc = "loop" => \A k \in ActiveMalformed : idx <= k
    /\ cpc \in {"loop", "raised", "returned"} =>
           \A k \in 1..Len(updated_contracts) :
               cgiven.heap[cgiven.contracts[k]]["status"] # "active"
                   => /\ updated_contracts[k] = cgiven.contracts[k]
                      /\ contract_heap[updated_contracts[k]]
                             = cgiven.heap[cgiven.contracts[k]]

C29_Witness ==
    /\ cpc = "raised"
    /\ Len(cgiven.contracts) = 2
    /\ idx = 2
    /\ cgiven.heap[cgiven.contracts[1]]["status"] = "draft"
    /\ ~ValidDate(cgiven.heap[cgiven.contracts[1]]["expiry_date"])
    /\ updated_contracts = <<cgiven.contracts[1]>>
    /\ contract_heap[cgiven.contracts[1]] = cgiven.heap[cgiven.contracts[1]]

\* ------------------------------------------------------------------------
\* user_updater.py: the record-driven loop and the update-driven algorithm

\* the algorithm of the docstring: for each update in order, the matching
\* user of the working list is replaced in place by the updated copy, and an
\* update that matches no user is skipped
RECURSIVE UpdateDriven(_, _, _)
UpdateDriven(h, work, ups) ==
    IF ups = <<>> THEN [heap |-> h, out |-> work]
    ELSE LET user == find_user_by_id(h, work, h[Head(ups)]["user_id"])
         IN  IF user = 0 THEN UpdateDriven(h, work, Tail(ups))
             ELSE LET r == apply_update_to_user(h, user, Head(ups))
                      at == CHOOSE k \in 1..Len(work) : work[k] = user
                  IN  UpdateDriven(r.heap, [work EXCEPT ![at] = r.ref], Tail(ups))

\* the records a list of references stands for
Records(h, refs) == [k \in 1..Len(refs) |-> h[refs[k]]]

UniqueUserIds ==
    \A i, j \in 1..Len(given.users) :
        i # j => given.heap[given.users[i]]["user_id"] # given.heap[given.users[j]]["user_id"]

\* C30: for a user list with unique user_id values apply_batch_updates
\* returns the records that the update-driven algorithm of its docstring
\* produces.
C30_SameAsUpdateDriven ==
    (pc = "returned" /\ UniqueUserIds) =>
        LET r == UpdateDriven(given.heap, given.users, given.updates)
        IN  Records(heap, updated_users) = Records(r.heap, r.out)

C30_Witness ==
    /\ pc = "returned"
    /\ UniqueUserIds
    /\ Len(given.users) = 2
    /\ Len(given.updates) = 2
    /\ given.heap[given.updates[1]]["user_id"] = given.heap[given.users[2]]["user_id"]
    /\ given.heap[given.updates[2]]["user_id"] = given.heap[given.users[2]]["user_id"]
    /\ DOMAIN given.heap[given.updates[1]] = {"user_id", "name"}
    /\ DOMAIN given.heap[given.updates[2]] = {"user_id", "role"}
    /\ heap[updated_users[2]] # given.heap[given.users[2]]
    /\ updated_users[1] = given.users[1]
====
